---- MODULE Spec2Model ----
(***************************************************************************)
(* A model of the JobMatch bulk scanner: the content script's job fetcher  *)
(* (JobExtractor), the background worker's scan handler and its local      *)
(* fallback scorer (generateEnhancedMockData), the storage manager's job   *)
(* cache, and the backend's rate limiter and batch matcher.                *)
(*                                                                         *)
(* Each component has its own specification over the shared variables:     *)
(*   SpecScorer   the fallback scorer applied to page contents             *)
(*   SpecLimiter  the backend's rate limiter under arbitrary call sequences *)
(*   SpecScan     the content script's extraction of a page, link by link   *)
(*   SpecQuota    the same extraction while the identity uses up its quota  *)
(*   SpecBatch    the backend's scoring of a job list, batch or fallback    *)
(*   SpecWorker   the background worker's handling of SCAN_PAGE messages    *)
(*   SpecRefusal  the same worker while the backend gives no ok answer      *)
(*   SpecCache    the storage manager's job cache under puts and gets      *)
(*   SpecLookup   the job cache with one caller of cacheJobData at a time  *)
(*   SpecLinks    the content scripts' discovery of a page's job links     *)
(*   SpecPage     repeated extractions of the content of one page           *)
(*   SpecThreshold  the worker's request for every stored match threshold   *)
(*   SpecPopup    the popup's scans and the worker's messages to it         *)
(*   SpecPopupLive  the same, the worker and the timers running on          *)
(*   SpecHealth   the worker's answers to HEALTH_CHECK                      *)
(*   SpecExtract  the content script's extraction of a job's description    *)
(*   SpecParser   the same extraction over the urls of every vendor         *)
(***************************************************************************)
EXTENDS Integers, Sequences, FiniteSets, TLC

\* ------------------------------------------------------------------------
\* Bounds of the model
\* ------------------------------------------------------------------------

\* Most tabs the popup is opened on.
MaxTabs == 2

\* Most clicks on the popup's scan button.
MaxClicks == 2

\* Most HEALTH_CHECK messages.
MaxChecks == 3

\* Most extractions of the content of one page.
MaxExtractions == 2

\* Most vendors whose fragment occurs in one part of a job url.
MaxFragments == 2

\* Longest jobElements list handed to the fallback scorer.
MaxJobs == 3

\* Largest cap a rate-limiter check is called with in SpecLimiter.
MaxCap == 2

\* Number of rate-limiter checks recorded in SpecLimiter.
MaxCalls == 4

\* The clock advances in steps of TickHours hours up to MaxTime hours.
TickHours == 12

MaxTime == 36

\* Most job links a page holds.
MaxLinks == 6

\* Number of page extractions started in one behaviour.
MaxScans == 2

\* Longest job list a backend scan works on.
MaxBatch == 10

\* Number of scans the background worker handles in one behaviour.
MaxWorkerScans == 2

\* Most job elements of a page the background worker is sent.
MaxWorkerJobs == 3

\* Most anchors of a page.
MaxAnchors == 3

\* Number of different urls the anchors of a page point to.
MaxHrefs == 2

\* Capacity of the modelled job cache (maxStorageItems.CACHED_JOBS, 200 in
\* the code).
CacheCap == 2

\* Number of urls whose job data is cached.
MaxUrls == 3

\* Most calls of cacheJobData in a behaviour.
MaxPuts == 3

\* ------------------------------------------------------------------------
\* Values shared by the components
\* ------------------------------------------------------------------------

\* JavaScript's null / undefined, for string-valued fields.
NULL == "null"

Min(a, b) == IF a < b THEN a ELSE b

Max(a, b) == IF a > b THEN a ELSE b

\* Sequences over S of length 0..n.
SeqUpTo(S, n) == UNION {[1..k -> S] : k \in 0..n}

VARIABLES
    \* --- fallback scorer (background worker, generateEnhancedMockData) ---
    resumeData,     \* settings.resumeData: a resume record, or NoResume
    pageContent,    \* the pageContent of the scan scored last
    mockResponse,   \* the fallback response built for pageContent
    prevResponse    \* the fallback response of the scan before that one

scorerVars == <<resumeData, pageContent, mockResponse, prevResponse>>

VARIABLES
    \* --- backend rate limiter (RateLimiter) ---
    now,             \* the clock, in hours
    requests,        \* self.requests: identity -> timestamps of general requests
    openai_requests, \* self.openai_requests: identity -> timestamps of scoring calls
    limits,          \* the caps the checks are called with
    callLog          \* the checks made so far: identity, kind, time, answer

limiterVars == <<now, requests, openai_requests, limits, callLog>>

VARIABLES
    \* --- content script (JobExtractor.extractJobListings) ---
    pc,          \* "idle", "loop" (inside the for loop) or "done"
    jobLinks,    \* the links findJobLinks returned for the page
    linkIdx,     \* position in limitedLinks of the next link to fetch
    inFlight,    \* positions of the links whose fetch has started and not settled
    jobs,        \* the jobs array built so far
    scans,       \* number of extractions started
    netCalls,    \* network requests issued by the current extraction
    fetchedAt,   \* url -> time its last fetch started, -1 if never
    lastFetch    \* what the fetch started last did

scanVars == <<pc, jobLinks, linkIdx, inFlight, jobs, scans, netCalls, fetchedAt, lastFetch>>

VARIABLES
    \* --- backend scan of a page (scan_page, Batch Matcher) ---
    batch        \* the latest backend scan: its jobs, the scorer's reply, its output

batchVars == <<batch>>

VARIABLES
    \* --- background worker (handleScanPage) ---
    wpc,              \* "idle", or "fetching" while the POST /scan/page is awaited
    wscan,            \* number of the scan handled last
    response,         \* what sendResponse was called with for that scan
    lastScanResults,  \* chrome.storage.local lastScanResults
    lastScanStatus,   \* chrome.storage.local lastScanStatus
    pendingResults,   \* chrome.storage.local pendingResults
    lastMessage,      \* the message sent last with chrome.runtime.sendMessage
    matchThreshold,   \* settings.matchThreshold, a percentage; NotStored when not set
    lastRequest       \* how the POST /scan/page of that scan ended, and whether
                      \* chrome.storage.local.set worked afterwards

workerVars ==
    <<wpc, wscan, response, lastScanResults, lastScanStatus, pendingResults, lastMessage,
      matchThreshold, lastRequest>>

VARIABLES
    \* --- storage manager (job cache) ---
    cachedJobs,       \* chrome.storage.local's cachedJobs: its entries in key order
    putReq,           \* per caller: the cacheJobData call it is in the middle of
    putCount,         \* number of entries cacheJobData built, the data of the latest
    putStored,        \* whether the latest cacheJobData call wrote the stored object
    lastGet           \* what the latest getCachedJobData call read and returned

cacheVars == <<cachedJobs, putReq, putCount, putStored, lastGet>>

VARIABLES
    \* --- content scripts (link discovery) ---
    dom,              \* the page's anchors, in document order
    discovered        \* the job links the latest findJobLinks call returned

domVars == <<dom, discovered>>

VARIABLES
    \* --- content script (the description of a fetched job page) ---
    extractDoc,       \* the job's site and what doc.querySelector finds per selector
    description       \* job.description as extractFullJobFromPage set it

extractVars == <<extractDoc, description>>

VARIABLES
    \* --- popup and the worker's handlers of its scans ---
    popup,            \* the open popup: the tab's url, its button, status, timers
    handlers,         \* per url, how far the worker's handleScanPage is
    store,            \* chrome.storage.local: pendingResults, lastScanResults,
                      \* lastScanStatus, each by the url it is about
    notified,         \* the worker's latest message and whether it was delivered
    clicks            \* the clicks on the scan button so far

popupVars == <<popup, handlers, store, notified, clicks>>

VARIABLES
    \* --- background worker (HEALTH_CHECK) ---
    healthChecks      \* per HEALTH_CHECK message, how its request ended and
                      \* the responses it got

healthVars == <<healthChecks>>

vars ==
    <<scorerVars, limiterVars, scanVars, batchVars, workerVars, cacheVars, domVars,
      extractVars, popupVars, healthVars>>

\* ------------------------------------------------------------------------
\* Strings.  A string is modelled by its text together with the keywords
\* its lower-cased form contains, which is all the scorer reads of it
\* (String.prototype.toLowerCase followed by includes).
\* ------------------------------------------------------------------------

LowerKeywords(str) ==
    CASE str = "Full Stack React Python Developer" -> {"full stack", "react", "python"}
      [] str = "Python Backend Engineer"   -> {"python", "backend"}
      [] str = "Frontend JavaScript Developer" -> {"frontend", "javascript"}
      [] str = "Full Stack Developer"      -> {"full stack"}
      [] str = "React"                     -> {"react"}
      [] str = "Python"                    -> {"python"}
      [] str = "JavaScript"                -> {"javascript"}
      [] str = "Docker"                    -> {"docker"}
      [] OTHER                             -> {}

\* str.toLowerCase().includes(kw)
LowerIncludes(str, kw) == kw \in LowerKeywords(str)

\* ------------------------------------------------------------------------
\* Fallback scorer
\* ------------------------------------------------------------------------

\* The job titles a page's job elements carry.
ElementTitles == {"Full Stack React Python Developer", "Data Analyst"}

\* A jobElement of pageContent, as the content script builds it.
JobElements == [title : ElementTitles]

\* userSkills.some(skill => skill.toLowerCase().includes(kw))
HasExperience(userSkills, kw) ==
    \E i \in 1..Len(userSkills) : LowerIncludes(userSkills[i], kw)

\* The jobs the scorer works on: the first 8 job elements of the page, or
\* three stock jobs when the page has none.
SliceJobElements == 8

MockJobTitles ==
    <<"Senior Software Engineer", "Full Stack Developer", "Software Engineer">>

\* pageContent.jobLinks.slice(0, 6)
SliceJobLinks == 6

\* The job link lists a page content carries; a link may come without a
\* title.
PageLinks == {<<>>, <<[title |-> "Data Analyst"]>>, <<[title |-> ""]>>}

\* The jobs of the page without the three stock jobs: nothing to score on a
\* page with no job.
BaseJobsNoStock(content) ==
    IF Len(content.jobElements) > 0
    THEN [i \in 1..Min(Len(content.jobElements), SliceJobElements) |->
            [id    |-> i - 1,
             title |-> IF content.jobElements[i].title # ""
                       THEN content.jobElements[i].title
                       ELSE "Software Position"]]
    ELSE [i \in 1..Min(Len(content.jobLinks), SliceJobLinks) |->
            [id    |-> i - 1,
             title |-> IF content.jobLinks[i].title # ""
                       THEN content.jobLinks[i].title
                       ELSE "Position Available"]]

BaseJobs(content) ==
    IF Len(content.jobElements) > 0
    THEN [i \in 1..Min(Len(content.jobElements), SliceJobElements) |->
            [id    |-> i - 1,
             title |-> IF content.jobElements[i].title # ""
                       THEN content.jobElements[i].title
                       ELSE "Software Position"]]
    ELSE IF Len(content.jobLinks) > 0
    THEN [i \in 1..Min(Len(content.jobLinks), SliceJobLinks) |->
            [id    |-> i - 1,
             title |-> IF content.jobLinks[i].title # ""
                       THEN content.jobLinks[i].title
                       ELSE "Position Available"]]
    ELSE [i \in 1..3 |-> [id |-> i, title |-> MockJobTitles[i]]]

\* A base score that rises with the list position.
BaseScoreRising(index) == 70 + (index * 5)

\* let baseScore = 70 + (index * -5), index counted from 0.
BaseScore(index) == 70 + (index * (0 - 5))

\* The boosts for skill matches between the profile and the job title.
SkillBonus(userSkills, title) ==
      (IF HasExperience(userSkills, "react") /\ LowerIncludes(title, "react")
       THEN 15 ELSE 0)
    + (IF HasExperience(userSkills, "python")
          /\ (LowerIncludes(title, "python") \/ LowerIncludes(title, "backend"))
       THEN 12 ELSE 0)
    + (IF HasExperience(userSkills, "javascript")
          /\ (LowerIncludes(title, "javascript") \/ LowerIncludes(title, "frontend")
              \/ LowerIncludes(title, "full stack"))
       THEN 10 ELSE 0)

\* Math.min(95, Math.max(65, baseScore)) without the clamp: a scorer that
\* forgot it.
ClampScoreMissing(score) == score

\* Math.min(95, Math.max(65, baseScore))
ClampScore(score) == Min(95, Max(65, score))

\* job.match_score when a resume is present; index counts from 0.
ResumeScore(userSkills, title, index) ==
    ClampScore(BaseScore(index) + SkillBonus(userSkills, title))

\* job.match_score when no resume is present.
DefaultScore(index) == 75 - (index * 3)

\* The value of a skills field that is not there.
UndefinedSkills == <<"undefined">>

\* resumeData.skills without the || [] default.
UserSkillsNoDefault(resume) ==
    IF resume.hasSkills THEN resume.skills ELSE UndefinedSkills

\* resumeData.skills || []
UserSkills(resume) == IF resume.hasSkills THEN resume.skills ELSE <<>>

\* userSkills.some(...) raises a TypeError when userSkills is undefined;
\* without a resume the skills are never read.
ScorerThrows(resume) == resume.present /\ UserSkills(resume) = UndefinedSkills

\* A scorer whose base score counts the position from the end of the list,
\* so that a job's score changes with the number of jobs after it.
generateMockDataFromEnd(resume, content) ==
    LET baseJobs == BaseJobs(content) IN
    [i \in 1..Len(baseJobs) |->
        [id          |-> baseJobs[i].id,
         title       |-> baseJobs[i].title,
         match_score |-> IF resume.present
                         THEN ResumeScore(UserSkills(resume), baseJobs[i].title,
                                          Len(baseJobs) - i)
                         ELSE DefaultScore(Len(baseJobs) - i)]]

generateEnhancedMockData(resume, content) ==
    LET baseJobs == BaseJobs(content) IN
    [i \in 1..Len(baseJobs) |->
        [id          |-> baseJobs[i].id,
         title       |-> baseJobs[i].title,
         match_score |-> IF resume.present
                         THEN ResumeScore(UserSkills(resume), baseJobs[i].title, i - 1)
                         ELSE DefaultScore(i - 1)]]

\* The profiles the options page can store: none, one without a skills
\* field, and skill lists with every combination of the three recognised
\* skills.
SkillLists ==
    {<<>>, <<"React">>, <<"Python">>, <<"JavaScript">>,
     <<"React", "Python">>, <<"React", "JavaScript">>,
     <<"Docker", "Python", "JavaScript">>,
     <<"React", "Python", "JavaScript">>}

\* No resume uploaded: settings.resumeData is undefined.
NoResume == [present |-> FALSE, hasSkills |-> FALSE, skills |-> <<>>]

Resumes ==
    {NoResume}
    \cup {[present |-> TRUE, hasSkills |-> FALSE, skills |-> <<>>]}
    \cup {[present |-> TRUE, hasSkills |-> TRUE, skills |-> sk] : sk \in SkillLists}

\* A page with one job element more than the scorer takes.
LongPage ==
    [jobElements |-> [i \in 1..(SliceJobElements + 1) |-> [title |-> "Data Analyst"]],
     jobLinks    |-> <<>>]

PageContents ==
    [jobElements : SeqUpTo(JobElements, MaxJobs), jobLinks : PageLinks]
    \cup {LongPage}

\* A page on which nothing was found.
EmptyPage == [jobElements |-> <<>>, jobLinks |-> <<>>]

\* No fallback response built yet.
NoResponse == [scored |-> FALSE, raised |-> FALSE, resume |-> NoResume, matches |-> <<>>]

ScorerState0 ==
    /\ pageContent = EmptyPage
    /\ mockResponse = NoResponse
    /\ prevResponse = NoResponse

ScorerInit ==
    /\ resumeData \in Resumes
    /\ ScorerState0

\* handleScanPage's fallback branch: the API request failed and the matches
\* are generated locally from the stored resume and the page content.
MockScan(content) ==
    /\ pageContent' = content
    /\ mockResponse' = IF ScorerThrows(resumeData)
                       THEN [scored |-> FALSE, raised |-> TRUE,
                             resume |-> resumeData, matches |-> <<>>]
                       ELSE [scored  |-> TRUE, raised |-> FALSE,
                             resume  |-> resumeData,
                             matches |-> generateEnhancedMockData(resumeData, content)]
    /\ prevResponse' = mockResponse
    /\ UNCHANGED <<resumeData, limiterVars, scanVars, batchVars, workerVars, cacheVars, domVars, extractVars, popupVars, healthVars>>

ScorerNext == \E content \in PageContents : MockScan(content)

\* ------------------------------------------------------------------------
\* Rate limiter (backend): two rolling 24-hour windows per identity, one of
\* general requests and one of scoring (OpenAI) calls.
\* ------------------------------------------------------------------------

\* The identities the limiter is asked about: user id plus client address.
Identities == {"chrome-extension-user@10.0.0.1", "chrome-extension-user@10.0.0.2"}

\* window_hours: int = 24
window_hours == 24

\* max_requests: int = 50
max_requests == 50

\* max_openai_calls: int = 10
max_openai_calls == 10

DefaultLimits == [general |-> max_requests, openai |-> max_openai_calls]

\* Keeps every timestamp, whatever its age: a limiter that never slides its
\* window.
PruneNothing(stamps, t) == stamps

\* The timestamps of a window that are not older than the window at time t.
Prune(stamps, t) == SelectSeq(stamps, LAMBDA at : t - at <= window_hours)

\* A check that counts the call whether or not it is allowed.
CheckWindowCountsAll(stamps, cap, t) ==
    LET kept == SelectSeq(stamps, LAMBDA at : t - at <= window_hours) IN
    [allowed |-> Len(kept) < cap, stamps |-> Append(kept, t)]

\* One check of a window against a cap at time t: the window is pruned, and
\* the call is counted only if the pruned window is below the cap.
CheckWindow(stamps, cap, t) ==
    LET kept == Prune(stamps, t) IN
    IF Len(kept) >= cap
    THEN [allowed |-> FALSE, stamps |-> kept]
    ELSE [allowed |-> TRUE,  stamps |-> Append(kept, t)]

LimiterState0 ==
    /\ now = 0
    /\ requests = [id \in Identities |-> <<>>]
    /\ openai_requests = [id \in Identities |-> <<>>]
    /\ callLog = <<>>

LimiterInit ==
    /\ LimiterState0
    /\ limits \in {[general |-> g, openai |-> o] : g \in 1..MaxCap, o \in 1..MaxCap}

\* Time passes.  The clock's step is hours long and an extraction takes
\* seconds, so the clock moves between extractions.
Tick ==
    /\ now + TickHours <= MaxTime
    /\ pc \in {"idle", "done"}
    /\ now' = now + TickHours
    /\ UNCHANGED <<requests, openai_requests, limits, callLog, scorerVars, scanVars, batchVars, workerVars, cacheVars, domVars, extractVars, popupVars, healthVars>>

\* rate_limiter.is_allowed(user_id, max_requests)
is_allowed(user_id) ==
    LET r == CheckWindow(requests[user_id], limits.general, now) IN
    /\ Len(callLog) < MaxCalls
    /\ requests' = [requests EXCEPT ![user_id] = r.stamps]
    /\ callLog' = Append(callLog, [id |-> user_id, kind |-> "general",
                                   at |-> now, allowed |-> r.allowed])
    /\ UNCHANGED <<now, openai_requests, limits, scorerVars, scanVars, batchVars, workerVars, cacheVars, domVars, extractVars, popupVars, healthVars>>

\* rate_limiter.is_openai_allowed(user_id, max_openai_calls)
is_openai_allowed(user_id) ==
    LET r == CheckWindow(openai_requests[user_id], limits.openai, now) IN
    /\ Len(callLog) < MaxCalls
    /\ openai_requests' = [openai_requests EXCEPT ![user_id] = r.stamps]
    /\ callLog' = Append(callLog, [id |-> user_id, kind |-> "openai",
                                   at |-> now, allowed |-> r.allowed])
    /\ UNCHANGED <<now, requests, limits, scorerVars, scanVars, batchVars, workerVars, cacheVars, domVars, extractVars, popupVars, healthVars>>

LimiterNext ==
    \/ Tick
    \/ \E id \in Identities : is_allowed(id)
    \/ \E id \in Identities : is_openai_allowed(id)

\* ------------------------------------------------------------------------
\* Content script: JobExtractor
\* ------------------------------------------------------------------------

\* this.maxJobsToFetch = 5
maxJobsToFetch == 5

\* this.concurrentFetches = 5, the documented width of the fetch pool.
concurrentFetches == 5

\* getCachedJobData(url, maxAgeHours = 24)
maxAgeHours == 24

\* The identity the content script's backend requests are counted under.
ExtensionUser == "chrome-extension-user@10.0.0.1"

\* The i-th job link of a page: links with an odd url are on the page's own
\* origin, the others on another origin.
Link(i) == [url |-> i, sameOrigin |-> (i % 2 = 1), title |-> "Software Engineer"]

\* findJobLinks(): the deduplicated links of the page, here its first n.
findJobLinks(n) == [i \in 1..n |-> Link(i)]

\* Every link found, without the slice.
AllLinks == jobLinks

\* jobLinks.slice(0, this.maxJobsToFetch)
limitedLinks == SubSeq(jobLinks, 1, Min(Len(jobLinks), maxJobsToFetch))

\* How a direct fetch can end.
DirectOutcomes == {"ok", "http_error", "network_error", "timeout"}

\* How a fetch through the backend can end: the backend answers with the
\* job, with success = false, with an error status, or with 429 when the
\* rate limiter refuses; or the request never gets an answer.
ProxiedOutcomes ==
    {"ok", "backend_failed", "http_error", "quota_exceeded", "network_error", "timeout"}

\* The record kept of the latest call of fetchJobDetailsEnhanced: network
\* says that the job's page was requested over the network (by fetchDirectly,
\* or by the backend once its limiter let the request through), counted that
\* the call was added to the identity's window, repeat that the same url was
\* fetched before within the cache's maximum age, quotaUsedUp that the
\* identity's window was at its cap when the call was made, content that the
\* call received the page's content (the html of response.text(), or the
\* job of the backend's answer).
NoFetch ==
    [url |-> 0, proxied |-> FALSE, settled |-> TRUE, status |-> "none",
     network |-> FALSE, counted |-> FALSE, repeat |-> FALSE, quotaUsedUp |-> FALSE,
     content |-> FALSE, extractionMethod |-> NULL]

ScanState0 ==
    /\ pc = "idle"
    /\ jobLinks = <<>>
    /\ linkIdx = 1
    /\ inFlight = {}
    /\ jobs = <<>>
    /\ scans = 0
    /\ netCalls = 0
    /\ fetchedAt = [u \in 1..MaxLinks |-> -1]
    /\ lastFetch = NoFetch

\* extractJobListings() starts: the links are found and limited.
ExtractStart(n) ==
    /\ pc \in {"idle", "done"}
    /\ scans < MaxScans
    /\ scans' = scans + 1
    /\ pc' = "loop"
    /\ jobLinks' = findJobLinks(n)
    /\ linkIdx' = 1
    /\ jobs' = <<>>
    /\ netCalls' = 0
    /\ UNCHANGED <<inFlight, fetchedAt, lastFetch, limiterVars, scorerVars, batchVars, workerVars, cacheVars, domVars, extractVars, popupVars, healthVars>>

\* A loop that starts the fetch of every link found without awaiting any.
ToFetchAll == 1..Len(jobLinks)

\* The links whose fetch the loop starts now: the next one, once the
\* previous fetch has been awaited.
ToFetch == IF inFlight = {} /\ linkIdx <= Len(limitedLinks) THEN {linkIdx} ELSE {}

\* The general window of the extension's identity is at its cap.
QuotaUsedUp == Len(Prune(requests[ExtensionUser], now)) >= limits.general

\* fetchJobDetailsEnhanced(link) is called and issues its request: a direct
\* fetch of a same-origin url, a POST to the backend otherwise.
FetchStart ==
    /\ pc = "loop"
    /\ ToFetch # {}
    /\ inFlight' = inFlight \cup ToFetch
    /\ netCalls' = netCalls + Cardinality(ToFetch)
    /\ LET i == CHOOSE k \in ToFetch : \A l \in ToFetch : k <= l
           link == jobLinks[i]
       IN  /\ fetchedAt' = [u \in DOMAIN fetchedAt |->
                                IF u \in {jobLinks[k].url : k \in ToFetch}
                                THEN now ELSE fetchedAt[u]]
           /\ lastFetch' =
                [url |-> link.url, proxied |-> ~link.sameOrigin, settled |-> FALSE,
                 status |-> "pending", network |-> link.sameOrigin, counted |-> FALSE,
                 repeat |-> (fetchedAt[link.url] >= 0
                             /\ now - fetchedAt[link.url] <= maxAgeHours),
                 quotaUsedUp |-> QuotaUsedUp,
                 content |-> FALSE,
                 extractionMethod |-> NULL]
    /\ UNCHANGED <<pc, jobLinks, linkIdx, jobs, scans, limiterVars, scorerVars, batchVars, workerVars, cacheVars, domVars, extractVars, popupVars, healthVars>>

\* The job fetchJobDetailsEnhanced returns for a link and an outcome.
\* fetchDirectly throws on every failure and the caller's catch returns the
\* link as it is; fetchViaBackend catches its own failures and marks them.
FetchedJob(link, outcome) ==
    IF link.sameOrigin
    THEN [url |-> link.url, title |-> link.title,
          described |-> (outcome = "ok"), extractionMethod |-> NULL]
    ELSE [url |-> link.url, title |-> link.title, described |-> TRUE,
          extractionMethod |-> IF outcome = "ok" THEN "backend-api" ELSE "fallback"]

\* A loop that fetches a link again when its fetch has failed.
RetryFailed(idx, outcome) == IF outcome = "ok" THEN idx + 1 ELSE idx

\* for (const link of limitedLinks): whatever the awaited fetch returned or
\* threw, the loop goes on to the next link.
AfterSettle(idx, outcome) == idx + 1

\* The content a fetch that ended with the outcome has received: the html
\* is read, or the backend's job taken, only after an ok response.
ContentReceived(outcome) == outcome = "ok"

\* The awaited direct fetch settles and the job is pushed.
DirectSettle(i, outcome) ==
    /\ pc = "loop"
    /\ i \in inFlight
    /\ jobLinks[i].sameOrigin
    /\ inFlight' = inFlight \ {i}
    /\ jobs' = Append(jobs, FetchedJob(jobLinks[i], outcome))
    /\ linkIdx' = AfterSettle(linkIdx, outcome)
    /\ lastFetch' = [lastFetch EXCEPT !.url = jobLinks[i].url, !.proxied = FALSE,
                        !.settled = TRUE, !.status = outcome,
                        !.content = ContentReceived(outcome),
                        !.extractionMethod = FetchedJob(jobLinks[i], outcome).extractionMethod]
    /\ UNCHANGED <<pc, jobLinks, scans, netCalls, fetchedAt, limiterVars, scorerVars, batchVars, workerVars, cacheVars, domVars, extractVars, popupVars, healthVars>>

\* The backend's /fetch/job handler sees the request (unless it never
\* arrives), counts it against the identity's general window, and the
\* awaited POST settles.
ProxiedSettle(i, outcome) ==
    LET check == CheckWindow(requests[ExtensionUser], limits.general, now)
        arrived == outcome # "network_error"
    IN
    /\ pc = "loop"
    /\ i \in inFlight
    /\ ~jobLinks[i].sameOrigin
    /\ arrived => (outcome = "quota_exceeded" <=> ~check.allowed)
    /\ requests' = IF arrived
                   THEN [requests EXCEPT ![ExtensionUser] = check.stamps]
                   ELSE requests
    /\ inFlight' = inFlight \ {i}
    /\ jobs' = Append(jobs, FetchedJob(jobLinks[i], outcome))
    /\ linkIdx' = AfterSettle(linkIdx, outcome)
    /\ lastFetch' = [lastFetch EXCEPT !.url = jobLinks[i].url, !.proxied = TRUE,
                        !.settled = TRUE, !.status = outcome,
                        !.content = ContentReceived(outcome),
                        !.counted = (arrived /\ check.allowed),
                        !.network = (arrived /\ check.allowed),
                        !.extractionMethod = FetchedJob(jobLinks[i], outcome).extractionMethod]
    /\ UNCHANGED <<pc, jobLinks, scans, netCalls, fetchedAt,
                   now, openai_requests, limits, callLog, scorerVars, batchVars, workerVars, cacheVars, domVars, extractVars, popupVars, healthVars>>

\* What extractJobListingsBasic() finds on a page, depending on its DOM.
BasicJobs ==
    {<<>>,
     <<[url |-> 0, title |-> "Software Engineer", described |-> FALSE,
        extractionMethod |-> NULL]>>}

\* The loop is over: the jobs are returned, or the basic page extraction's
\* when there are none.
ExtractFinish(basic) ==
    /\ pc = "loop"
    /\ linkIdx > Len(limitedLinks)
    /\ pc' = "done"
    /\ jobs' = IF Len(jobs) = 0 THEN basic ELSE jobs
    /\ UNCHANGED <<jobLinks, linkIdx, inFlight, scans, netCalls, fetchedAt, lastFetch,
                   limiterVars, scorerVars, batchVars, workerVars, cacheVars, domVars, extractVars, popupVars, healthVars>>

\* Another request of the same identity reaches the backend (the worker's
\* POST /scan/page) and is counted against its general window.
BackendRequest ==
    /\ requests' = [requests EXCEPT ![ExtensionUser] =
                        CheckWindow(requests[ExtensionUser], limits.general, now).stamps]
    /\ UNCHANGED <<now, openai_requests, limits, callLog, scanVars, scorerVars, batchVars, workerVars, cacheVars, domVars, extractVars, popupVars, healthVars>>

ScanNext ==
    \/ \E n \in 0..MaxLinks : ExtractStart(n)
    \/ FetchStart
    \/ \E i \in 1..MaxLinks, o \in DirectOutcomes : DirectSettle(i, o)
    \/ \E i \in 1..MaxLinks, o \in ProxiedOutcomes : ProxiedSettle(i, o)
    \/ \E basic \in BasicJobs : ExtractFinish(basic)
    \/ Tick

QuotaNext ==
    \/ \E n \in 0..MaxLinks : ExtractStart(n)
    \/ FetchStart
    \/ \E i \in 1..MaxLinks, o \in DirectOutcomes : DirectSettle(i, o)
    \/ \E i \in 1..MaxLinks, o \in ProxiedOutcomes : ProxiedSettle(i, o)
    \/ \E basic \in BasicJobs : ExtractFinish(basic)
    \/ BackendRequest

\* ------------------------------------------------------------------------
\* Backend scan of a page: routing between the Batch Matcher and the
\* Fallback Scorer, and the Batch Matcher's use of the external scorer.
\* ------------------------------------------------------------------------

\* Most jobs one batch call takes.
BatchCap == 25

\* Fewest jobs a batch call is made for (len(jobs) > 3).
BatchThreshold == 4

\* The scores the external scorer gives.
ScorerScores == {70, 90}

\* The job list of a scan with n jobs.
BatchJobs(n) ==
    [i \in 1..n |-> [id    |-> i,
                     title |-> IF i % 2 = 1 THEN "Full Stack React Python Developer"
                               ELSE "Data Analyst"]]

\* Scores that differ from job to job, rising or falling with the position.
DistinctScore(i, up) == IF up THEN 40 + (5 * i) ELSE 100 - (5 * i)

\* One entry of the scorer's response.
Result(i, s) == [index |-> i, hasScore |-> TRUE, score |-> s]

\* The replies the external scorer can give to a request of n jobs: a
\* well-formed one, one with a field missing, one with a job too few or too
\* many, one that is not parsable, or none (error, timeout).  defect names
\* which; the matcher does not read it.
WellFormedReplies(n) ==
    {[kind |-> "json", defect |-> "none",
      results |-> [i \in 1..n |-> Result(i, sc[i])]] : sc \in [1..n -> ScorerScores]}
    \cup {[kind |-> "json", defect |-> "none",
           results |-> [i \in 1..n |-> Result(i, DistinctScore(i, up))]] : up \in BOOLEAN}

MalformedReplies(n) ==
    {[kind |-> "json", defect |-> "missing_fields",
      results |-> [i \in 1..n |-> IF i = k
                                  THEN [index |-> i, hasScore |-> FALSE, score |-> 0]
                                  ELSE Result(i, 90)]] : k \in 1..n}
    \cup {[kind |-> "json", defect |-> "wrong_job_count",
           results |-> [i \in 1..m |-> Result(i, 90)]] : m \in {n - 1, n + 1}}
    \cup {[kind |-> "text", defect |-> "unparsable", results |-> <<>>]}

UnavailableReplies ==
    {[kind |-> k, defect |-> "unavailable", results |-> <<>>] : k \in {"error", "timeout"}}

ScorerReplies(n) == WellFormedReplies(n) \cup MalformedReplies(n) \cup UnavailableReplies

\* No call was made to the external scorer.
NoReply == [kind |-> "none", defect |-> "none", results |-> <<>>]

\* The response enumerates every job once, each with a score in 0..100.
Valid(reply, n) ==
    /\ reply.kind = "json"
    /\ Len(reply.results) = n
    /\ \A i \in 1..Len(reply.results) :
            /\ reply.results[i].hasScore
            /\ reply.results[i].score \in 0..100
    /\ {reply.results[i].index : i \in 1..Len(reply.results)} = 1..n

\* The score the response gives to the i-th submitted job.
ScoreOf(reply, i) ==
    LET k == CHOOSE k \in 1..Len(reply.results) : reply.results[k].index = i
    IN  reply.results[k].score

\* An order that leaves the jobs as they were submitted.
SubmittedOrder(n, scoreAt) == [i \in 1..n |-> i]

\* An insertion that puts a position before the positions of equal score.
RECURSIVE InsertBeforeEqual(_, _, _)
InsertBeforeEqual(order, j, scoreAt) ==
    IF order = <<>> THEN <<j>>
    ELSE IF scoreAt[Head(order)] > scoreAt[j]
         THEN <<Head(order)>> \o InsertBeforeEqual(Tail(order), j, scoreAt)
         ELSE <<j>> \o order

\* Stable sort, descending by score, of the submitted positions: a position
\* is inserted after every position whose score is at least its own.
RECURSIVE InsertByScore(_, _, _)
InsertByScore(order, j, scoreAt) ==
    IF order = <<>> THEN <<j>>
    ELSE IF scoreAt[Head(order)] >= scoreAt[j]
         THEN <<Head(order)>> \o InsertByScore(Tail(order), j, scoreAt)
         ELSE <<j>> \o order

RECURSIVE SortByScore(_, _)
SortByScore(n, scoreAt) ==
    IF n = 0 THEN <<>>
    ELSE InsertByScore(SortByScore(n - 1, scoreAt), n, scoreAt)

\* A rank that counts the jobs with a higher score, so that jobs with equal
\* scores share a rank.
RankByScore(order, k, scoreAt) ==
    1 + Cardinality({j \in 1..Len(order) : scoreAt[order[j]] > scoreAt[order[k]]})

\* The rank of the k-th job of the sorted order: 1..N in that order.
Rank(order, k, scoreAt) == k

\* The Batch Matcher's results for a valid response.
BatchMatches(batchJobs, reply) ==
    LET n       == Len(batchJobs)
        scoreAt == [i \in 1..n |-> ScoreOf(reply, i)]
        order   == SortByScore(n, scoreAt)
    IN  [k \in 1..n |-> [job_id |-> batchJobs[order[k]].id,
                         score  |-> scoreAt[order[k]],
                         rank   |-> Rank(order, k, scoreAt),
                         source |-> "scorer"]]

\* The Fallback Scorer's results: one per job, in the order the jobs came.
FallbackMatches(batchJobs, profile) ==
    [i \in 1..Len(batchJobs) |->
        [job_id |-> batchJobs[i].id,
         score  |-> IF profile.present
                    THEN ResumeScore(UserSkills(profile), batchJobs[i].title, i - 1)
                    ELSE DefaultScore(i - 1),
         rank   |-> i,
         source |-> "fallback"]]

\* A matcher that trusts the entries of the response that are well formed
\* and scores only the other jobs with the Fallback Scorer.
scorePartial(batchJobs, profile, reply) ==
    LET fb == FallbackMatches(batchJobs, profile)
        scored(i) == /\ reply.kind = "json"
                     /\ \E k \in 1..Len(reply.results) :
                            reply.results[k].index = i /\ reply.results[k].hasScore
    IN  [processing_method |-> "batch_llm",
         matches |-> [i \in 1..Len(batchJobs) |->
                        IF scored(i)
                        THEN [fb[i] EXCEPT !.score = ScoreOf(reply, i), !.source = "scorer"]
                        ELSE fb[i]]]

\* score(jobs, profile): the output for the reply the one call to the
\* external scorer got.  A reply that is not valid fails the whole batch,
\* and every job goes to the Fallback Scorer.
score(batchJobs, profile, reply) ==
    IF Valid(reply, Len(batchJobs))
    THEN [processing_method |-> "batch_llm", matches |-> BatchMatches(batchJobs, reply)]
    ELSE [processing_method |-> "fallback", matches |-> FallbackMatches(batchJobs, profile)]

\* The profiles of the scans: none, one without skills, one with skills.
BatchProfiles ==
    {NoResume,
     [present |-> TRUE, hasSkills |-> FALSE, skills |-> <<>>],
     [present |-> TRUE, hasSkills |-> TRUE, skills |-> <<"React", "Python">>]}

\* The match thresholds of the requests, in hundredths.
BatchThresholds == {70, 90}

\* The matches of the output: those at or above the threshold, in the order
\* of their ranks.
AboveThreshold(matches, threshold) ==
    SelectSeq(matches, LAMBDA mr : mr.score >= threshold)

\* The profiles of the backend's scans: none, or one with skills.
ScanProfiles == {p \in BatchProfiles : p.present => p.hasSkills}

NoBatch ==
    [phase |-> "none", jobs |-> <<>>, granted |-> FALSE, threshold |-> 0,
     called |-> FALSE, calls |-> 0, reply |-> NoReply, success |-> FALSE,
     processing_method |-> "none", matches |-> <<>>, returned |-> <<>>]

BatchState0 == batch = NoBatch

\* request.batch_processing and request.resume_data and len(jobs) > 3; the
\* worker sends batch_processing: true with every request.
BatchRouted(n) == resumeData.present /\ n >= BatchThreshold

\* A routing that does not ask the rate limiter.
UsesBatchUnlimited(n, granted) == BatchRouted(n)

\* The Batch Matcher is invoked for a request routed to it whose scoring
\* attempt the rate limiter granted.
UsesBatch(n, granted) == BatchRouted(n) /\ granted

\* The output of a scan whose jobs were scored: the matches at or above the
\* threshold; a scan without any job fails.
ScanOutput(b, processing_method, matches) ==
    [b EXCEPT !.phase = "done",
              !.success = (Len(b.jobs) > 0),
              !.processing_method = IF Len(b.jobs) > 0 THEN processing_method ELSE "error",
              !.matches = matches,
              !.returned = AboveThreshold(matches, b.threshold)]

\* The scan of a request, up to its output or to its call of the external
\* scorer.
RouteScan(n, granted, threshold) ==
    LET b == [NoBatch EXCEPT !.jobs = BatchJobs(n), !.granted = granted,
                             !.threshold = threshold]
    IN  IF UsesBatch(n, granted)
        THEN [b EXCEPT !.phase = "awaiting", !.called = TRUE, !.calls = 1]
        ELSE ScanOutput(b, "fallback", FallbackMatches(b.jobs, resumeData))

\* A matcher that calls the scorer again after a reply that is not valid.
CallsWithRetry(calls, valid) == IF valid THEN calls ELSE calls + 1

\* The number of calls made once a reply has come: no call follows it.
CallsAfterReply(calls, valid) == calls

\* The scan of a request whose call of the external scorer got the reply.
FinishScan(b, reply) ==
    LET out == score(b.jobs, resumeData, reply) IN
    [ScanOutput(b, out.processing_method, out.matches)
        EXCEPT !.reply = reply,
               !.calls = CallsAfterReply(b.calls, Valid(reply, Len(b.jobs)))]

\* scan_page receives a request with n jobs.  Each request is handled on
\* its own, so a behaviour follows one request.
ScanPage(n, granted, threshold) ==
    /\ batch.phase = "none"
    /\ n <= BatchCap
    /\ batch' = RouteScan(n, granted, threshold)
    /\ UNCHANGED <<scorerVars, limiterVars, scanVars, workerVars, cacheVars, domVars, extractVars, popupVars, healthVars>>

\* The external scorer's reply, or the failure of the call, arrives.
ScorerAnswers ==
    /\ batch.phase = "awaiting"
    /\ \E reply \in ScorerReplies(Len(batch.jobs)) : batch' = FinishScan(batch, reply)
    /\ UNCHANGED <<scorerVars, limiterVars, scanVars, workerVars, cacheVars, domVars, extractVars, popupVars, healthVars>>

BatchNext ==
    \/ \E n \in 0..MaxBatch, granted \in BOOLEAN, threshold \in BatchThresholds :
            ScanPage(n, granted, threshold)
    \/ ScorerAnswers

\* ------------------------------------------------------------------------
\* Background worker: handleScanPage
\* ------------------------------------------------------------------------

\* settings.matchThreshold when chrome.storage.sync holds no such key
\* (undefined).
NotStored == -1

\* The match thresholds the options page stores.
WorkerThresholds == {NotStored, 50, 70}

\* settings.matchThreshold || 70, the threshold of the request in
\* hundredths: undefined and 0 are both falsy.
RequestThreshold(stored) == IF stored = NotStored \/ stored = 0 THEN 70 ELSE stored

\* percentage / 100, the decimal the request carries.
Decimal(percentage) == [num |-> percentage, den |-> 100]

\* The number of jobs the backend finds in a page content: its job
\* elements and its job links.
JobsFound(content) == Len(content.jobElements) + Len(content.jobLinks)

\* The response body of /scan/page for a finished scan.
ScanResponse(b) ==
    [success |-> b.success,
     processing_method |-> b.processing_method,
     matches |-> [k \in 1..Len(b.returned) |->
                    [id          |-> b.returned[k].job_id,
                     title       |-> b.jobs[b.returned[k].job_id].title,
                     match_score |-> b.returned[k].score]]]

\* The results the backend's /scan/page can answer a request with: the
\* outputs of its scan of the page's jobs, for every answer of its rate
\* limiter and of the external scorer.
BackendResults(content, threshold) ==
    UNION {LET b == RouteScan(JobsFound(content), granted, threshold) IN
           IF b.phase = "done"
           THEN {ScanResponse(b)}
           ELSE {ScanResponse(FinishScan(b, reply)) :
                    reply \in ScorerReplies(JobsFound(content))}
           : granted \in BOOLEAN}

NoResults ==
    [scan |-> 0, success |-> FALSE, processing_method |-> "none", matches |-> <<>>]

NoMessage == [scan |-> 0, type |-> "none", delivered |-> FALSE, matches |-> <<>>]

\* No request has ended yet.
NoRequest ==
    [status |-> "none", stored |-> TRUE, match_threshold |-> [num |-> 0, den |-> 0]]

\* The ways the request fails other than by the abort timer: the backend's
\* rate limiter refuses it (429), the backend fails (500), or the host is
\* not reached.
ApiErrors == {"429", "500", "network"}

WorkerState0 ==
    /\ lastRequest = NoRequest
    /\ wpc = "idle"
    /\ wscan = 0
    /\ response = "none"
    /\ lastScanResults = NoResults
    /\ lastScanStatus = [scan |-> 0, status |-> "none"]
    /\ pendingResults = NoResults
    /\ lastMessage = NoMessage

\* handleScanPage up to the await of the POST: the settings are read, the
\* caller gets the 'processing' acknowledgment, the request is sent and the
\* 600000 ms abort timer is armed.
HandleScanPage(content) ==
    /\ wpc = "idle"
    /\ wscan < MaxWorkerScans
    /\ wscan' = wscan + 1
    /\ pageContent' = content
    /\ response' = "processing"
    /\ wpc' = "fetching"
    /\ lastRequest' =
            [NoRequest EXCEPT
                !.match_threshold = Decimal(RequestThreshold(matchThreshold))]
    /\ UNCHANGED <<resumeData, mockResponse, prevResponse, lastScanResults,
                   lastScanStatus, pendingResults, lastMessage, matchThreshold,
                   limiterVars, scanVars, batchVars, cacheVars, domVars, extractVars, popupVars, healthVars>>

\* The backend answers in time with an ok response: the result is stored as
\* lastScanResults and pendingResults and sent as SCAN_COMPLETE, which
\* reaches the popup if it is open.
ApiSuccess(result, popupOpen) ==
    LET stored == [scan |-> wscan, success |-> result.success,
                   processing_method |-> result.processing_method,
                   matches |-> result.matches]
    IN
    /\ wpc = "fetching"
    /\ lastRequest' = [lastRequest EXCEPT !.status = "200", !.stored = TRUE]
    /\ lastScanResults' = stored
    /\ pendingResults' = stored
    /\ lastMessage' = [scan |-> wscan, type |-> "SCAN_COMPLETE",
                       delivered |-> popupOpen, matches |-> result.matches]
    /\ wpc' = "idle"
    /\ UNCHANGED <<wscan, response, lastScanStatus, matchThreshold, scorerVars,
                   limiterVars, scanVars, batchVars, cacheVars, domVars, extractVars, popupVars, healthVars>>

\* The abort timer fires before the backend answers (AbortError): the
\* timeout status is stored, SCAN_TIMEOUT is sent, and the handler returns.
ApiTimeout(popupOpen) ==
    /\ wpc = "fetching"
    /\ lastRequest' = [lastRequest EXCEPT !.status = "aborted", !.stored = TRUE]
    /\ lastScanStatus' = [scan |-> wscan, status |-> "timeout"]
    /\ lastMessage' = [scan |-> wscan, type |-> "SCAN_TIMEOUT",
                       delivered |-> popupOpen, matches |-> <<>>]
    /\ wpc' = "idle"
    /\ UNCHANGED <<wscan, response, lastScanResults, pendingResults, matchThreshold,
                   scorerVars, limiterVars, scanVars, batchVars, cacheVars, domVars, extractVars, popupVars, healthVars>>

\* The request fails otherwise (no connection, or a response that is not
\* ok): the matches are generated locally, stored as lastScanResults and
\* sent as SCAN_COMPLETE.
ApiFailure(popupOpen, status) ==
    LET matches == generateEnhancedMockData(resumeData, pageContent) IN
    /\ wpc = "fetching"
    /\ lastRequest' = [lastRequest EXCEPT !.status = status, !.stored = TRUE]
    /\ mockResponse' = [scored |-> TRUE, raised |-> FALSE,
                        resume |-> resumeData, matches |-> matches]
    /\ prevResponse' = mockResponse
    /\ lastScanResults' = [scan |-> wscan, success |-> TRUE,
                           processing_method |-> "mock", matches |-> matches]
    /\ lastMessage' = [scan |-> wscan, type |-> "SCAN_COMPLETE",
                       delivered |-> popupOpen, matches |-> matches]
    /\ wpc' = "idle"
    /\ UNCHANGED <<wscan, response, lastScanStatus, pendingResults, matchThreshold,
                   resumeData, pageContent, limiterVars, scanVars, batchVars, cacheVars, domVars, extractVars, popupVars, healthVars>>

\* handleScanPage throws before the request is sent (the settings cannot be
\* read): the outer catch stores an error result and sends SCAN_ERROR; the
\* caller's sendResponse is never called.
HandleScanPageThrows(content, popupOpen) ==
    /\ wpc = "idle"
    /\ wscan < MaxWorkerScans
    /\ wscan' = wscan + 1
    /\ pageContent' = content
    /\ response' = "none"
    /\ lastRequest' = NoRequest
    /\ lastScanResults' = [scan |-> wscan + 1, success |-> FALSE,
                           processing_method |-> "error", matches |-> <<>>]
    /\ lastMessage' = [scan |-> wscan + 1, type |-> "SCAN_ERROR",
                       delivered |-> popupOpen, matches |-> <<>>]
    /\ UNCHANGED <<wpc, lastScanStatus, pendingResults, matchThreshold,
                   resumeData, mockResponse, prevResponse,
                   limiterVars, scanVars, batchVars, cacheVars, domVars, extractVars, popupVars, healthVars>>

\* Every chrome.storage.local.set of the scan throws (the quota of the
\* store is used up), however the request ended. After an ok response the
\* set of lastScanResults throws inside the inner try, so the results of
\* the backend are dropped and the fallback branch runs; the set of the
\* fallback branch (or of the timeout branch) throws into the outer catch,
\* and the set of the outer catch throws out of handleScanPage: the promise
\* is rejected, nothing is stored and no message is sent.
StorageSetThrows(status) ==
    /\ wpc = "fetching"
    /\ lastRequest' = [lastRequest EXCEPT !.status = status, !.stored = FALSE]
    /\ IF status = "aborted"
       THEN UNCHANGED <<mockResponse, prevResponse>>
       ELSE /\ mockResponse' = [scored |-> TRUE, raised |-> FALSE,
                                resume |-> resumeData,
                                matches |-> generateEnhancedMockData(resumeData,
                                                                     pageContent)]
            /\ prevResponse' = mockResponse
    /\ wpc' = "idle"
    /\ UNCHANGED <<wscan, response, lastScanResults, lastScanStatus, pendingResults,
                   lastMessage, matchThreshold, resumeData, pageContent,
                   limiterVars, scanVars, batchVars, cacheVars, domVars, extractVars, popupVars, healthVars>>

\* The percentages the options page can store.
StoredThresholds == 0..100

\* The pages the worker is sent.
WorkerContents ==
    [jobElements : {[i \in 1..k |-> [title |-> "Data Analyst"]] : k \in 0..MaxWorkerJobs},
     jobLinks    : {<<>>, <<[title |-> "Data Analyst"]>>}]

WorkerNext ==
    \/ \E content \in WorkerContents : HandleScanPage(content)
    \/ \E popupOpen \in BOOLEAN,
           result \in BackendResults(pageContent, RequestThreshold(matchThreshold)) :
            ApiSuccess(result, popupOpen)
    \/ \E popupOpen \in BOOLEAN : ApiTimeout(popupOpen)
    \/ \E popupOpen \in BOOLEAN, status \in ApiErrors : ApiFailure(popupOpen, status)
    \/ \E status \in {"200", "aborted"} \cup ApiErrors : StorageSetThrows(status)
    \/ \E content \in WorkerContents, popupOpen \in BOOLEAN :
            HandleScanPageThrows(content, popupOpen)

\* ------------------------------------------------------------------------
\* Storage manager: the job cache (cacheJobData, getCachedJobData)
\* ------------------------------------------------------------------------

\* The urls whose job data is cached.
CacheUrls == 1..MaxUrls

\* The callers that can be inside cacheJobData at the same time.
CacheCallers == {"scan1", "scan2"}

\* No cache entry.
NoEntry == [url |-> 0, cachedAt |-> 0, data |-> 0]

\* cachedJobs[url]: the position of the url's entry, 0 when it has none.
EntryIndex(cache, url) ==
    IF \E k \in 1..Len(cache) : cache[k].url = url
    THEN CHOOSE k \in 1..Len(cache) : cache[k].url = url
    ELSE 0

\* cachedJobs[url] = cacheEntry: an existing key keeps its place, a new key
\* comes last.
SetEntry(cache, entry) ==
    IF EntryIndex(cache, entry.url) > 0
    THEN [cache EXCEPT ![EntryIndex(cache, entry.url)] = entry]
    ELSE Append(cache, entry)

\* sort((a, b) => new Date(b.entry.cachedAt) - new Date(a.entry.cachedAt)):
\* stable, newest first.
RECURSIVE InsertNewestFirst(_, _)
InsertNewestFirst(sorted, entry) ==
    IF sorted = <<>> THEN <<entry>>
    ELSE IF Head(sorted).cachedAt >= entry.cachedAt
         THEN <<Head(sorted)>> \o InsertNewestFirst(Tail(sorted), entry)
         ELSE <<entry>> \o sorted

RECURSIVE SortNewestFirst(_)
SortNewestFirst(cache) ==
    IF cache = <<>> THEN <<>>
    ELSE InsertNewestFirst(SortNewestFirst(SubSeq(cache, 1, Len(cache) - 1)),
                           cache[Len(cache)])

\* The object cacheJobData writes back: all the entries, or the CacheCap
\* newest when there are more.
KeepNewest(cache) ==
    IF Len(cache) > CacheCap
    THEN SubSeq(SortNewestFirst(cache), 1, CacheCap)
    ELSE cache

\* A cache whose entries never expire.
NeverExpired(cacheAge, maxAge) == FALSE

\* cacheAge > maxAge
Expired(cacheAge, maxAge) == cacheAge > maxAge

\* The record of a getCachedJobData call: found says that the url had an
\* entry, cacheAge is that entry's age in hours, hit says that the entry's
\* data was returned (data), otherwise null was.
NoGet ==
    [url |-> 0, failed |-> FALSE, found |-> FALSE, cacheAge |-> 0,
     hit |-> FALSE, data |-> 0]

\* getCachedJobData(url, maxAgeHours = 24) at time t; ok is FALSE when the
\* storage read throws.
getCachedJobData(cache, url, t, ok) ==
    LET k == EntryIndex(cache, url)
        base == [NoGet EXCEPT !.url = url]
    IN  IF ~ok THEN [base EXCEPT !.failed = TRUE]
        ELSE IF k = 0 THEN base
        ELSE IF Expired(t - cache[k].cachedAt, maxAgeHours)
             THEN [base EXCEPT !.found = TRUE, !.cacheAge = t - cache[k].cachedAt]
             ELSE [base EXCEPT !.found = TRUE, !.cacheAge = t - cache[k].cachedAt,
                               !.hit = TRUE, !.data = cache[k].data]

\* A caller that is not inside cacheJobData.
NoPut == [phase |-> "idle", entry |-> NoEntry, existing |-> <<>>]

CacheState0 ==
    /\ cachedJobs = <<>>
    /\ putReq = [c \in CacheCallers |-> NoPut]
    /\ putCount = 0
    /\ putStored = FALSE
    /\ lastGet = NoGet

\* cacheJobData(url, jobData) builds its entry and reads the stored object;
\* when the read throws, the catch logs and nothing is stored.
CachePutRead(c, url, ok) ==
    /\ putReq[c].phase = "idle"
    /\ putCount < MaxPuts
    /\ putCount' = IF ok THEN putCount + 1 ELSE putCount
    /\ putReq' = IF ok
                 THEN [putReq EXCEPT ![c] =
                          [phase |-> "read",
                           entry |-> [url |-> url, cachedAt |-> now, data |-> putCount + 1],
                           existing |-> cachedJobs]]
                 ELSE putReq
    /\ UNCHANGED <<cachedJobs, putStored, lastGet, scorerVars, limiterVars, scanVars,
                   batchVars, workerVars, domVars, extractVars, popupVars, healthVars>>

\* cacheJobData sets its entry in the object it read and writes the object
\* back, cut to the newest entries; when the write throws, nothing changes.
CachePutWrite(c, ok) ==
    /\ putReq[c].phase = "read"
    /\ cachedJobs' = IF ok
                     THEN KeepNewest(SetEntry(putReq[c].existing, putReq[c].entry))
                     ELSE cachedJobs
    /\ putReq' = [putReq EXCEPT ![c] = NoPut]
    /\ putStored' = ok
    /\ UNCHANGED <<putCount, lastGet, scorerVars, limiterVars, scanVars, batchVars,
                   workerVars, domVars, extractVars, popupVars, healthVars>>

\* getCachedJobData(url) is called.
CacheGet(url, ok) ==
    /\ lastGet' = getCachedJobData(cachedJobs, url, now, ok)
    /\ UNCHANGED <<cachedJobs, putReq, putCount, putStored, scorerVars, limiterVars,
                   scanVars, batchVars, workerVars, domVars, extractVars, popupVars, healthVars>>

\* Hours pass between the calls: a call of cacheJobData is over within the
\* hour it began in.
CacheTick ==
    /\ \A c \in CacheCallers : putReq[c].phase = "idle"
    /\ Tick

CacheNext ==
    \/ \E c \in CacheCallers, url \in CacheUrls, ok \in BOOLEAN : CachePutRead(c, url, ok)
    \/ \E c \in CacheCallers, ok \in BOOLEAN : CachePutWrite(c, ok)
    \/ \E url \in CacheUrls, ok \in BOOLEAN : CacheGet(url, ok)
    \/ CacheTick

\* ------------------------------------------------------------------------
\* Content scripts: findJobLinks
\* ------------------------------------------------------------------------

\* Two of the selectors both scripts go through, in the order of the list.
selectorsToUse == <<"a[href*=/jobs/]", ".job-item a">>

\* An anchor of the page: its resolved href (0 when it has none), whether it
\* or its card has any text, the places in the list of the selectors that
\* match it, and whether it lies inside a nav or footer element of the
\* page's main content.
Anchors ==
    [href : 0..MaxHrefs, text : BOOLEAN,
     sels : (SUBSET (1..Len(selectorsToUse))) \ {{}}, inNav : {FALSE}]

\* The pages: their anchors in document order.
Doms == SeqUpTo(Anchors, MaxAnchors)

\* document.querySelectorAll(selector)
querySelectorAll(d, selector) == SelectSeq(d, LAMBDA el : selector \in el.sels)

\* jobLinks.find(link => link.url === href)
FindByUrl(found, href) == \E k \in 1..Len(found) : found[k].url = href

\* jobLinks.includes(href): an element of jobLinks that is the string href
\* itself.  The elements are link objects.
IncludesHref(found, href) == \E k \in 1..Len(found) : found[k] = [string |-> href]

\* extractJobFromLink(element).title: the text of the card's heading or of
\* the link; without any text the enhanced script falls back to 'Job
\* Position' and the other one leaves the title empty.
TitleOf(el, script) ==
    IF el.text THEN "Software Engineer"
    ELSE IF script = "content-enhanced" THEN "Job Position" ELSE ""

\* The link pushed for an element.
LinkOf(el, selector, script) ==
    [url |-> el.href, title |-> TitleOf(el, script), selector |-> selector]

\* The two content scripts that find job links.
ContentScripts == {"content-enhanced", "content"}

\* elements.forEach: an element with an href that is not yet among the
\* links is pushed.
RECURSIVE PushLinks(_, _, _, _)
PushLinks(found, elements, selector, script) ==
    IF elements = <<>> THEN found
    ELSE LET el == Head(elements)
             known == IF script = "content-enhanced"
                      THEN FindByUrl(found, el.href)
                      ELSE IncludesHref(found, el.href)
         IN  PushLinks(IF el.href # 0 /\ ~known /\ TitleOf(el, script) # ""
                       THEN Append(found, LinkOf(el, selector, script))
                       ELSE found,
                       Tail(elements), selector, script)

\* selectorsToUse.forEach, from the selector on.
RECURSIVE ForEachSelector(_, _, _, _)
ForEachSelector(found, d, selector, script) ==
    IF selector > Len(selectorsToUse) THEN found
    ELSE ForEachSelector(PushLinks(found, querySelectorAll(d, selector), selector, script),
                         d, selector + 1, script)

\* findJobLinks() of the script on the page.
findJobLinksOf(script, d) == ForEachSelector(<<>>, d, 1, script)

\* The pages with job links in their body and in their navigation or
\* footer.
PageDoms ==
    SeqUpTo([href : 1..MaxHrefs, text : {TRUE}, sels : {{1}}, inNav : BOOLEAN],
            MaxAnchors)

\* mainContent.querySelectorAll('script, style, nav, footer, .nav, .footer')
\* followed by el.remove() for each: the page without them.
RemoveNav(d) == SelectSeq(d, LAMBDA el : ~el.inNav)

\* links is what the latest findJobLinks call returned, before what the
\* extraction before the latest returned, runs the number of extractions
\* of the page.
NoDiscovery == [script |-> "none", links |-> <<>>, before |-> <<>>, runs |-> 0]

DomState0 == discovered = NoDiscovery

\* A content script runs findJobLinks() on the page.
FindJobLinks(script) ==
    /\ discovered' = [discovered EXCEPT !.script = script,
                                        !.links = findJobLinksOf(script, dom)]
    /\ UNCHANGED <<dom, scorerVars, limiterVars, scanVars, batchVars, workerVars,
                   cacheVars, extractVars, popupVars, healthVars>>

LinksNext == \E script \in ContentScripts : FindJobLinks(script)

\* extractPageContent() of the enhanced content script: the job links are
\* found and fetched, then the main text is taken after the scripts,
\* styles, navs and footers are removed from the page's main content.
ExtractPageContent ==
    /\ discovered.runs < MaxExtractions
    /\ discovered' = [script |-> "content-enhanced",
                      links  |-> findJobLinksOf("content-enhanced", dom),
                      before |-> discovered.links,
                      runs   |-> discovered.runs + 1]
    /\ dom' = RemoveNav(dom)
    /\ UNCHANGED <<scorerVars, limiterVars, scanVars, batchVars, workerVars,
                   cacheVars, extractVars, popupVars, healthVars>>

PageNext == ExtractPageContent

\* ------------------------------------------------------------------------
\* Content script: the description of a fetched job page
\* (extractFullJobFromPage).  A text is a sequence of characters.
\* ------------------------------------------------------------------------

\* contentSelectors of extractWorkdayJob.
WorkdayContentSelectors ==
    <<"[data-automation-id=jobPostingDescription]", ".jobDescription",
      ".Job_Description", ".wd-text">>

\* contentSelectors of extractGenericJob.
GenericContentSelectors ==
    <<".job-description", ".description", ".content", ".job-content", "main",
      ".main-content", "#content">>

\* doc.querySelector(selector) found no element.
NullElement == [present |-> FALSE, textContent |-> <<>>]

\* The texts of the elements found: none, blanks only, and texts with and
\* without blanks around them.
ElementTexts == {<<>>, <<" ", " ">>, <<"a">>, <<" ", "b", " ">>}

\* What doc.querySelector(selector) returns.
Elements ==
    {NullElement} \cup {[present |-> TRUE, textContent |-> t] : t \in ElementTexts}

RECURSIVE TrimStart(_)
TrimStart(text) ==
    IF text # <<>> /\ Head(text) = " " THEN TrimStart(Tail(text)) ELSE text

RECURSIVE TrimEnd(_)
TrimEnd(text) ==
    IF text # <<>> /\ text[Len(text)] = " "
    THEN TrimEnd(SubSeq(text, 1, Len(text) - 1))
    ELSE text

\* String.prototype.trim
Trim(text) == TrimEnd(TrimStart(text))

\* substring(0, 2000)
DescriptionLength == 2000

\* String.prototype.substring(0, n)
Substring(text, n) == SubSeq(text, 1, Min(Len(text), n))

\* if (element)
ElementFound(element) == element.present

\* for (const selector of contentSelectors): the text of the first element
\* found, or the extractor's placeholder sentence when no selector finds an
\* element.  found[i] is what doc.querySelector returns for the i-th
\* selector (for extractGenericJob, after the scripts, styles, navs and
\* footers inside the element are removed).
RECURSIVE FirstElementText(_, _)
FirstElementText(found, i) ==
    IF i > Len(found)
    THEN [placeholder |-> TRUE, text |-> <<>>]
    ELSE IF ElementFound(found[i])
    THEN [placeholder |-> FALSE,
          text |-> Substring(Trim(found[i].textContent), DescriptionLength)]
    ELSE FirstElementText(found, i + 1)

\* extractGreenhouseJob, extractLeverJob and extractBambooHRJob: the same
\* loop over three selectors each.
VendorContentSelectors ==
    [greenhouse |-> <<".job-post-content", ".content", ".job-description">>,
     lever      |-> <<".posting-content", ".section-wrapper", ".posting-description">>,
     bamboohr   |-> <<".BH-Job-Description", ".job-description", ".content">>]

extractVendorJob(found) == FirstElementText(found, 1)

extractWorkdayJob(found) == FirstElementText(found, 1)

extractGenericJob(found) == FirstElementText(found, 1)

\* The vendors whose sites have an extractor of their own, or are said to.
Vendors == {"workday", "greenhouse", "lever", "bamboohr", "amazon"}

\* A job url is modelled by the vendors whose fragment ('myworkdayjobs.com'
\* or 'workday', 'greenhouse.io' or 'grnh.se', 'jobs.lever.co',
\* 'bamboohr.com', 'amazon') occurs in its host, and those whose fragment
\* occurs in the rest of it (path and query).
FragmentSets == {S \in SUBSET Vendors : Cardinality(S) <= MaxFragments}

JobUrls == [host : FragmentSets, path : FragmentSets]

\* A url of a Workday site, and one of a site of no known vendor.
WorkdayUrl == [host |-> {"workday"}, path |-> {}]

OtherUrl == [host |-> {}, path |-> {}]

\* job.url.includes(fragment), for a fragment of the vendor.
UrlIncludes(url, vendor) == vendor \in (url.host \cup url.path)

\* The if / else if chain of extractFullJobFromPage.
SelectParser(url) ==
    IF UrlIncludes(url, "workday") THEN "workday"
    ELSE IF UrlIncludes(url, "greenhouse") THEN "greenhouse"
    ELSE IF UrlIncludes(url, "lever") THEN "lever"
    ELSE IF UrlIncludes(url, "bamboohr") THEN "bamboohr"
    ELSE "generic"

\* The selectors of the extractor the chain selects.
ContentSelectorsOf(parser) ==
    IF parser = "workday" THEN WorkdayContentSelectors
    ELSE IF parser = "generic" THEN GenericContentSelectors
    ELSE VendorContentSelectors[parser]

\* The job pages: a Workday page or a page of an unknown site, with every
\* combination of elements under the selectors of its extractor.
ExtractDocs ==
    {[url |-> WorkdayUrl, found |-> f] :
        f \in [1..Len(WorkdayContentSelectors) -> Elements]}
    \cup {[url |-> OtherUrl, found |-> f] :
        f \in [1..Len(GenericContentSelectors) -> Elements]}

\* The job pages of every url: no element under a selector of the
\* extractor selected, or a text under its first.
ParserDocs ==
    UNION {LET n == Len(ContentSelectorsOf(SelectParser(u))) IN
           {[url |-> u, found |-> [i \in 1..n |-> NullElement]],
            [url |-> u,
             found |-> [i \in 1..n |-> IF i = 1
                                       THEN [present |-> TRUE, textContent |-> <<"a">>]
                                       ELSE NullElement]]}
           : u \in JobUrls}

\* No page fetched.
NoDoc == [url |-> OtherUrl, found |-> <<>>]

\* job.description not set yet.
NoDescription ==
    [done |-> FALSE, parser |-> "none", placeholder |-> FALSE, text |-> <<>>]

ExtractState0 == description = NoDescription

\* extractFullJobFromPage: the description is taken by the extractor of the
\* job's site.
ExtractFullJobFromPage ==
    LET parser == SelectParser(extractDoc.url)
        r == IF parser = "workday" THEN extractWorkdayJob(extractDoc.found)
             ELSE IF parser = "generic" THEN extractGenericJob(extractDoc.found)
             ELSE extractVendorJob(extractDoc.found)
    IN
    /\ ~description.done
    /\ description' = [done |-> TRUE, parser |-> parser,
                       placeholder |-> r.placeholder, text |-> r.text]
    /\ UNCHANGED <<extractDoc, scorerVars, limiterVars, scanVars, batchVars,
                   workerVars, cacheVars, domVars, popupVars, healthVars>>

ExtractNext == ExtractFullJobFromPage

\* ------------------------------------------------------------------------
\* Popup: initializePopup, handleScanPage, messageListener and the timers,
\* with the worker's handlers of the SCAN_PAGE messages it sends
\* ------------------------------------------------------------------------

\* The urls of the tabs the popup is opened on.
PopupUrls == 1..MaxTabs

\* The minutes since the worker last wrote to chrome.storage.local, on
\* both sides of the windows of 2, 5 and 10 minutes initializePopup tests.
Ages == {1, 4, 9, 11}

\* The fields of messageData.data, which the worker stores as
\* pendingResults.
MessageDataFields ==
    {"success", "matches", "message", "jobs_found", "processing_time",
     "processing_method", "resume_used"}

NoPending == [url |-> 0, fields |-> {}]

NoLast == [url |-> 0, success |-> FALSE, matches |-> 0, processing_method |-> "none"]

NoNotification == [type |-> "none", url |-> 0, delivered |-> FALSE]

\* No popup is open.
PopupClosed ==
    [phase |-> "closed", url |-> 0, button |-> "none", status |-> "none",
     listening |-> FALSE, shown |-> 0, quick |-> FALSE, timeoutUI |-> FALSE,
     checkButton |-> FALSE]

PopupState0 ==
    /\ popup = PopupClosed
    /\ handlers = [u \in PopupUrls |-> "idle"]
    /\ store = [pendingResults |-> NoPending, lastScanResults |-> NoLast,
                lastScanStatus |-> 0]
    /\ notified = NoNotification
    /\ clicks = 0

\* initializePopup: the popup opens on the tab of url u, age minutes after
\* the worker's last write.  It shows the stored results of the same url if
\* they are younger than 10 minutes, else those of any url if they are
\* younger than 2 minutes and hold a match, else offers to check for results
\* after a timeout of the same url.
InitializePopup(u, age) ==
    LET last  == store.lastScanResults
        fresh == [PopupClosed EXCEPT !.phase = "ready", !.url = u,
                                     !.button = "enabled"]
    IN
    /\ popup.phase = "closed"
    /\ popup' =
          IF last.url = u /\ age < 10 /\ last.success
          THEN [fresh EXCEPT !.shown = last.url, !.status = "results"]
          ELSE IF last.url # 0 /\ age < 2 /\ last.success /\ last.matches > 0
          THEN [fresh EXCEPT !.shown = last.url, !.status = "results"]
          ELSE IF store.lastScanStatus = u /\ age < 5
          THEN [fresh EXCEPT !.status = "Processing", !.checkButton = TRUE]
          ELSE [fresh EXCEPT !.status = "resume"]
    /\ UNCHANGED <<handlers, store, notified, clicks, scorerVars, limiterVars,
                   scanVars, batchVars, workerVars, cacheVars, domVars,
                   extractVars, healthVars>>

\* The popup is closed: its listener and its timers go with it.
ClosePopup ==
    /\ popup.phase # "closed"
    /\ popup' = PopupClosed
    /\ UNCHANGED <<handlers, store, notified, clicks, scorerVars, limiterVars,
                   scanVars, batchVars, workerVars, cacheVars, domVars,
                   extractVars, healthVars>>

\* The finally block of handleScanPage: the button is enabled again unless
\* the status text holds 'Processing' or 'longer than expected'.
Finally(p) ==
    IF p.status \notin {"Processing", "longer than expected"}
    THEN [p EXCEPT !.button = "enabled"]
    ELSE p

\* handleScanPage of the popup up to the await of the initial response:
\* the button is disabled, the results are hidden, the page content is
\* extracted, messageListener is added and SCAN_PAGE is sent.
ClickScan ==
    /\ popup.phase \in {"ready", "waiting", "over"}
    /\ popup.button = "enabled"
    /\ clicks < MaxClicks
    /\ handlers[popup.url] # "fetching"
    /\ clicks' = clicks + 1
    /\ popup' = [popup EXCEPT !.phase = "sent", !.button = "disabled",
                              !.status = "Scanning", !.shown = 0,
                              !.listening = TRUE]
    /\ UNCHANGED <<handlers, store, notified, scorerVars, limiterVars,
                   scanVars, batchVars, workerVars, cacheVars, domVars,
                   extractVars, healthVars>>

\* handleScanPage of the popup when the content script cannot be injected
\* or does not answer EXTRACT_CONTENT: the catch block shows the failure
\* and the finally block enables the button.
ClickScanFails ==
    /\ popup.phase \in {"ready", "waiting", "over"}
    /\ popup.button = "enabled"
    /\ clicks < MaxClicks
    /\ clicks' = clicks + 1
    /\ popup' = Finally([popup EXCEPT !.phase = "over", !.button = "disabled",
                                      !.status = "Scan failed", !.shown = 0])
    /\ UNCHANGED <<handlers, store, notified, scorerVars, limiterVars,
                   scanVars, batchVars, workerVars, cacheVars, domVars,
                   extractVars, healthVars>>

\* messageListener: a message of the worker reaches the popup.  Neither
\* branch looks at the url the message is about.
MessageListener(p, type, u) ==
    IF type = "SCAN_COMPLETE"
    THEN [p EXCEPT !.shown = u, !.status = "results", !.button = "enabled",
                   !.listening = FALSE]
    ELSE IF type = "SCAN_TIMEOUT"
    THEN [p EXCEPT !.status = "longer than expected", !.timeoutUI = TRUE]
    ELSE [p EXCEPT !.status = "Scan failed", !.button = "enabled",
                   !.listening = FALSE]

\* chrome.runtime.sendMessage of the worker reaches a popup only if one is
\* open with its listener added.
Deliverable == popup.phase # "closed" /\ popup.listening

\* The worker sends a message about the scan of url u.
SendMessage(type, u, delivered) ==
    /\ delivered => Deliverable
    /\ notified' = [type |-> type, url |-> u, delivered |-> delivered]
    /\ popup' = IF delivered THEN MessageListener(popup, type, u) ELSE popup

\* The worker's handleScanPage receives the popup's SCAN_PAGE and sends the
\* 'processing' acknowledgment: the popup shows its message, arms the 5 s
\* check and returns, and the finally block leaves the button as it is.
ScanAcknowledged ==
    /\ popup.phase = "sent"
    /\ handlers' = [handlers EXCEPT ![popup.url] = "fetching"]
    /\ popup' = Finally([popup EXCEPT !.phase = "waiting",
                                      !.status = "Processing", !.quick = TRUE])
    /\ UNCHANGED <<store, notified, clicks, scorerVars, limiterVars,
                   scanVars, batchVars, workerVars, cacheVars, domVars,
                   extractVars, healthVars>>

\* The worker's handleScanPage throws before the acknowledgment: the outer
\* catch stores an error result and sends SCAN_ERROR; the popup's request
\* stays without a response.
ScanThrows(delivered) ==
    /\ popup.phase = "sent"
    /\ store' = [store EXCEPT !.lastScanResults =
                    [url |-> popup.url, success |-> FALSE, matches |-> 0,
                     processing_method |-> "error"]]
    /\ delivered => Deliverable
    /\ notified' = [type |-> "SCAN_ERROR", url |-> popup.url,
                    delivered |-> delivered]
    /\ popup' = [(IF delivered
                  THEN MessageListener(popup, "SCAN_ERROR", popup.url)
                  ELSE popup) EXCEPT !.phase = "unanswered"]
    /\ UNCHANGED <<handlers, clicks, scorerVars, limiterVars,
                   scanVars, batchVars, workerVars, cacheVars, domVars,
                   extractVars, healthVars>>

\* The popup's 10 s timer for the initial response fires: the catch block
\* shows the failure and the finally block enables the button.
CommunicationTimeout ==
    /\ popup.phase = "unanswered"
    /\ popup' = Finally([popup EXCEPT !.phase = "over", !.status = "Scan failed"])
    /\ UNCHANGED <<handlers, store, notified, clicks, scorerVars, limiterVars,
                   scanVars, batchVars, workerVars, cacheVars, domVars,
                   extractVars, healthVars>>

\* The backend answers the scan of url u with n matches: the worker stores
\* lastScanResults, stores messageData.data as pendingResults, and sends
\* SCAN_COMPLETE.
ScanCompletes(u, n, delivered) ==
    /\ handlers[u] = "fetching"
    /\ handlers' = [handlers EXCEPT ![u] = "done"]
    /\ store' = [store EXCEPT
                    !.lastScanResults =
                        [url |-> u, success |-> TRUE, matches |-> n,
                         processing_method |-> "backend"],
                    !.pendingResults = [url |-> u, fields |-> MessageDataFields]]
    /\ SendMessage("SCAN_COMPLETE", u, delivered)
    /\ UNCHANGED <<clicks, scorerVars, limiterVars,
                   scanVars, batchVars, workerVars, cacheVars, domVars,
                   extractVars, healthVars>>

\* The request of the scan of url u fails: the worker stores the locally
\* generated matches as lastScanResults and sends SCAN_COMPLETE.
ScanFallsBack(u, n, delivered) ==
    /\ handlers[u] = "fetching"
    /\ handlers' = [handlers EXCEPT ![u] = "done"]
    /\ store' = [store EXCEPT
                    !.lastScanResults =
                        [url |-> u, success |-> TRUE, matches |-> n,
                         processing_method |-> "mock"]]
    /\ SendMessage("SCAN_COMPLETE", u, delivered)
    /\ UNCHANGED <<clicks, scorerVars, limiterVars,
                   scanVars, batchVars, workerVars, cacheVars, domVars,
                   extractVars, healthVars>>

\* The abort timer of the scan of url u fires: the worker stores the
\* timeout as lastScanStatus and sends SCAN_TIMEOUT.
ScanTimesOut(u, delivered) ==
    /\ handlers[u] = "fetching"
    /\ handlers' = [handlers EXCEPT ![u] = "done"]
    /\ store' = [store EXCEPT !.lastScanStatus = u]
    /\ SendMessage("SCAN_TIMEOUT", u, delivered)
    /\ UNCHANGED <<clicks, scorerVars, limiterVars,
                   scanVars, batchVars, workerVars, cacheVars, domVars,
                   extractVars, healthVars>>

\* The check the popup runs once, 5 s after the acknowledgment: it shows
\* pendingResults.data if pendingResults has a timestamp of the last 5
\* minutes.
QuickCheck ==
    LET pending == store.pendingResults IN
    /\ popup.quick
    /\ IF pending.url # 0 /\ "timestamp" \in pending.fields
       THEN /\ popup' = [popup EXCEPT !.quick = FALSE, !.shown = pending.url,
                                      !.status = "results", !.button = "enabled",
                                      !.listening = FALSE]
            /\ store' = [store EXCEPT !.pendingResults = NoPending]
       ELSE /\ popup' = [popup EXCEPT !.quick = FALSE]
            /\ UNCHANGED store
    /\ UNCHANGED <<handlers, notified, clicks, scorerVars, limiterVars,
                   scanVars, batchVars, workerVars, cacheVars, domVars,
                   extractVars, healthVars>>

\* showTimeoutUI, 2 s after SCAN_TIMEOUT reached the popup: the results
\* area is replaced by the timeout notice with its two buttons, and the
\* scan button is enabled.
ShowTimeoutUI ==
    /\ popup.timeoutUI
    /\ popup' = [popup EXCEPT !.timeoutUI = FALSE, !.shown = 0,
                              !.checkButton = TRUE, !.button = "enabled"]
    /\ UNCHANGED <<handlers, store, notified, clicks, scorerVars, limiterVars,
                   scanVars, batchVars, workerVars, cacheVars, domVars,
                   extractVars, healthVars>>

\* checkForStoredResults, behind the 'Check for Results' button: the popup
\* shows lastScanResults, of whatever url, if they are a success.
CheckForStoredResults ==
    LET last == store.lastScanResults IN
    /\ popup.checkButton
    /\ popup' =
          IF last.url # 0 /\ last.success
          THEN [popup EXCEPT !.shown = last.url, !.button = "enabled",
                             !.status = IF last.processing_method = "mock"
                                        THEN "fallback" ELSE "results"]
          ELSE [popup EXCEPT !.status = "No completed results"]
    /\ UNCHANGED <<handlers, store, notified, clicks, scorerVars, limiterVars,
                   scanVars, batchVars, workerVars, cacheVars, domVars,
                   extractVars, healthVars>>

\* What the user does.
UserSteps ==
    \/ \E u \in PopupUrls, age \in Ages : InitializePopup(u, age)
    \/ ClosePopup
    \/ ClickScan
    \/ ClickScanFails
    \/ CheckForStoredResults

\* What the worker and the popup's timers do.
WorkerAndTimerSteps ==
    \/ ScanAcknowledged
    \/ \E delivered \in BOOLEAN : ScanThrows(delivered)
    \/ CommunicationTimeout
    \/ \E u \in PopupUrls, n \in 0..1, delivered \in BOOLEAN :
            ScanCompletes(u, n, delivered)
    \/ \E u \in PopupUrls, n \in 0..1, delivered \in BOOLEAN :
            ScanFallsBack(u, n, delivered)
    \/ \E u \in PopupUrls, delivered \in BOOLEAN : ScanTimesOut(u, delivered)
    \/ QuickCheck
    \/ ShowTimeoutUI

PopupNext == UserSteps \/ WorkerAndTimerSteps

\* ------------------------------------------------------------------------
\* Background worker: checkBackendHealth
\* ------------------------------------------------------------------------

\* The two versions of the worker: the one of part_002, whose catch block
\* reads the settings constant of its try block, and the one of
\* background.js, whose catch block reads no variable.
WorkerScripts == {"part_002", "background"}

\* The ways GET /health ends: an ok response, a response that is not ok,
\* no connection.
HealthAnswers == {"200", "503", "network"}

HealthState0 == healthChecks = <<>>

\* The listener receives HEALTH_CHECK, calls checkBackendHealth and returns
\* true; the request to /health is sent.
HealthCheck(script) ==
    /\ Len(healthChecks) < MaxChecks
    /\ healthChecks' = Append(healthChecks,
                              [script |-> script, answer |-> "pending",
                               responses |-> 0, success |-> "none"])
    /\ UNCHANGED <<scorerVars, limiterVars, scanVars, batchVars, workerVars,
                   cacheVars, domVars, extractVars, popupVars>>

\* The catch block of checkBackendHealth.  In part_002 the argument of
\* sendResponse reads settings, a const of the try block that is not in
\* the scope of the catch block: the ReferenceError is raised before
\* sendResponse is called and the promise is rejected.
HealthCatch(check, answer) ==
    IF check.script = "part_002"
    THEN [check EXCEPT !.answer = answer]
    ELSE [check EXCEPT !.answer = answer, !.responses = @ + 1,
                       !.success = "false"]

\* The request of the i-th check ends: sendResponse with success true after
\* an ok response, the catch block otherwise.
CheckBackendHealth(i, answer) ==
    /\ i \in 1..Len(healthChecks)
    /\ healthChecks[i].answer = "pending"
    /\ healthChecks' =
          [healthChecks EXCEPT ![i] =
              IF answer = "200"
              THEN [@ EXCEPT !.answer = answer, !.responses = @ + 1,
                             !.success = "true"]
              ELSE HealthCatch(@, answer)]
    /\ UNCHANGED <<scorerVars, limiterVars, scanVars, batchVars, workerVars,
                   cacheVars, domVars, extractVars, popupVars>>

HealthNext ==
    \/ \E script \in WorkerScripts : HealthCheck(script)
    \/ \E i \in 1..MaxChecks, answer \in HealthAnswers : CheckBackendHealth(i, answer)

\* ------------------------------------------------------------------------
\* Specifications
\* ------------------------------------------------------------------------

InitScorer ==
    /\ ExtractState0 /\ extractDoc = NoDoc
    /\ PopupState0 /\ HealthState0
    /\ DomState0 /\ dom = <<>>
    /\ CacheState0
    /\ BatchState0
    /\ WorkerState0 /\ matchThreshold = NotStored
    /\ ScorerInit
    /\ LimiterState0 /\ limits = DefaultLimits
    /\ ScanState0

SpecScorer == InitScorer /\ [][ScorerNext]_vars

InitLimiter ==
    /\ ExtractState0 /\ extractDoc = NoDoc
    /\ PopupState0 /\ HealthState0
    /\ DomState0 /\ dom = <<>>
    /\ CacheState0
    /\ BatchState0
    /\ WorkerState0 /\ matchThreshold = NotStored
    /\ LimiterInit
    /\ ScorerState0 /\ resumeData = NoResume
    /\ ScanState0

SpecLimiter == InitLimiter /\ [][LimiterNext]_vars

InitScan ==
    /\ ExtractState0 /\ extractDoc = NoDoc
    /\ PopupState0 /\ HealthState0
    /\ DomState0 /\ dom = <<>>
    /\ CacheState0
    /\ BatchState0
    /\ WorkerState0 /\ matchThreshold = NotStored
    /\ ScanState0
    /\ LimiterState0 /\ limits = DefaultLimits
    /\ ScorerState0 /\ resumeData = NoResume

SpecScan == InitScan /\ [][ScanNext]_vars

SpecQuota == InitScan /\ [][QuotaNext]_vars

InitBatch ==
    /\ ExtractState0 /\ extractDoc = NoDoc
    /\ PopupState0 /\ HealthState0
    /\ DomState0 /\ dom = <<>>
    /\ CacheState0
    /\ BatchState0
    /\ WorkerState0 /\ matchThreshold = NotStored
    /\ ScorerState0 /\ resumeData \in ScanProfiles
    /\ LimiterState0 /\ limits = DefaultLimits
    /\ ScanState0

SpecBatch == InitBatch /\ [][BatchNext]_vars

InitWorker ==
    /\ ExtractState0 /\ extractDoc = NoDoc
    /\ PopupState0 /\ HealthState0
    /\ DomState0 /\ dom = <<>>
    /\ CacheState0
    /\ WorkerState0 /\ matchThreshold \in WorkerThresholds
    /\ BatchState0
    /\ ScorerState0 /\ resumeData \in BatchProfiles
    /\ LimiterState0 /\ limits = DefaultLimits
    /\ ScanState0

SpecWorker == InitWorker /\ [][WorkerNext]_vars

\* The worker while the backend gives no ok answer: every request is
\* refused, fails or runs into the abort timer.
RefusalNext ==
    \/ \E content \in WorkerContents : HandleScanPage(content)
    \/ \E popupOpen \in BOOLEAN : ApiTimeout(popupOpen)
    \/ \E popupOpen \in BOOLEAN, status \in ApiErrors : ApiFailure(popupOpen, status)
    \/ \E status \in {"aborted"} \cup ApiErrors : StorageSetThrows(status)
    \/ \E content \in WorkerContents, popupOpen \in BOOLEAN :
            HandleScanPageThrows(content, popupOpen)

SpecRefusal == InitWorker /\ [][RefusalNext]_vars

\* The worker for every threshold the options page can have stored.
InitThreshold ==
    /\ ExtractState0 /\ extractDoc = NoDoc
    /\ PopupState0 /\ HealthState0
    /\ DomState0 /\ dom = <<>>
    /\ CacheState0
    /\ BatchState0
    /\ WorkerState0 /\ matchThreshold \in StoredThresholds \cup {NotStored}
    /\ ScorerState0 /\ resumeData = NoResume
    /\ LimiterState0 /\ limits = DefaultLimits
    /\ ScanState0

SpecThreshold == InitThreshold /\ [][RefusalNext]_vars

InitPopup ==
    /\ ExtractState0 /\ extractDoc = NoDoc
    /\ PopupState0 /\ HealthState0
    /\ DomState0 /\ dom = <<>>
    /\ CacheState0
    /\ BatchState0
    /\ WorkerState0 /\ matchThreshold = NotStored
    /\ ScorerState0 /\ resumeData = NoResume
    /\ LimiterState0 /\ limits = DefaultLimits
    /\ ScanState0

SpecPopup == InitPopup /\ [][PopupNext]_vars

\* The worker's handlers and the popup's timers run on: a request ends, a
\* timer that is armed fires.  Nothing makes the user act.
SpecPopupLive ==
    InitPopup /\ [][PopupNext]_vars /\ WF_vars(WorkerAndTimerSteps)

InitHealth ==
    /\ ExtractState0 /\ extractDoc = NoDoc
    /\ PopupState0 /\ HealthState0
    /\ DomState0 /\ dom = <<>>
    /\ CacheState0
    /\ BatchState0
    /\ WorkerState0 /\ matchThreshold = NotStored
    /\ ScorerState0 /\ resumeData = NoResume
    /\ LimiterState0 /\ limits = DefaultLimits
    /\ ScanState0

SpecHealth == InitHealth /\ [][HealthNext]_vars

InitCache ==
    /\ ExtractState0 /\ extractDoc = NoDoc
    /\ PopupState0 /\ HealthState0
    /\ DomState0 /\ dom = <<>>
    /\ CacheState0
    /\ BatchState0
    /\ WorkerState0 /\ matchThreshold = NotStored
    /\ ScorerState0 /\ resumeData = NoResume
    /\ LimiterState0 /\ limits = DefaultLimits
    /\ ScanState0

SpecCache == InitCache /\ [][CacheNext]_vars

\* The cache with one caller of cacheJobData at a time.
LookupNext ==
    \/ \E url \in CacheUrls, ok \in BOOLEAN : CachePutRead("scan1", url, ok)
    \/ \E ok \in BOOLEAN : CachePutWrite("scan1", ok)
    \/ \E url \in CacheUrls, ok \in BOOLEAN : CacheGet(url, ok)
    \/ CacheTick

SpecLookup == InitCache /\ [][LookupNext]_vars

InitLinks ==
    /\ ExtractState0 /\ extractDoc = NoDoc
    /\ PopupState0 /\ HealthState0
    /\ DomState0 /\ dom \in Doms
    /\ CacheState0
    /\ BatchState0
    /\ WorkerState0 /\ matchThreshold = NotStored
    /\ ScorerState0 /\ resumeData = NoResume
    /\ LimiterState0 /\ limits = DefaultLimits
    /\ ScanState0

SpecLinks == InitLinks /\ [][LinksNext]_vars

InitPage ==
    /\ ExtractState0 /\ extractDoc = NoDoc
    /\ PopupState0 /\ HealthState0
    /\ DomState0 /\ dom \in PageDoms
    /\ CacheState0
    /\ BatchState0
    /\ WorkerState0 /\ matchThreshold = NotStored
    /\ ScorerState0 /\ resumeData = NoResume
    /\ LimiterState0 /\ limits = DefaultLimits
    /\ ScanState0

SpecPage == InitPage /\ [][PageNext]_vars

InitExtract ==
    /\ ExtractState0 /\ extractDoc \in ExtractDocs
    /\ PopupState0 /\ HealthState0
    /\ DomState0 /\ dom = <<>>
    /\ CacheState0
    /\ BatchState0
    /\ WorkerState0 /\ matchThreshold = NotStored
    /\ ScorerState0 /\ resumeData = NoResume
    /\ LimiterState0 /\ limits = DefaultLimits
    /\ ScanState0

SpecExtract == InitExtract /\ [][ExtractNext]_vars

InitParser ==
    /\ ExtractState0 /\ extractDoc \in ParserDocs
    /\ PopupState0 /\ HealthState0
    /\ DomState0 /\ dom = <<>>
    /\ CacheState0
    /\ BatchState0
    /\ WorkerState0 /\ matchThreshold = NotStored
    /\ ScorerState0 /\ resumeData = NoResume
    /\ LimiterState0 /\ limits = DefaultLimits
    /\ ScanState0

SpecParser == InitParser /\ [][ExtractNext]_vars

\* ------------------------------------------------------------------------
\* Properties of the fallback scorer
\* ------------------------------------------------------------------------

\* C5: whenever a profile is present, every score of the fallback response
\* lies in the closed range [65, 95], at every list position and with every
\* combination of skill bonuses.
C5_ScoreInRange ==
    (mockResponse.scored /\ mockResponse.resume.present) =>
        \A i \in DOMAIN mockResponse.matches :
            /\ mockResponse.matches[i].match_score >= 65
            /\ mockResponse.matches[i].match_score <= 95

\* C5 witness: a profile is present and the response holds a job whose
\* unclamped score is above the range (first place, all three boosts) and
\* one whose unclamped score is below it (third place, no boost).
C5_Witness ==
    /\ mockResponse.scored /\ mockResponse.resume.present
    /\ Len(mockResponse.matches) >= 3
    /\ BaseScore(0) + SkillBonus(UserSkills(mockResponse.resume),
                                 mockResponse.matches[1].title) > 95
    /\ BaseScore(2) + SkillBonus(UserSkills(mockResponse.resume),
                                 mockResponse.matches[3].title) < 65

\* C6 as stated: with a profile present, the same job scored with the same
\* profile gets the same score whatever its position and whatever the other
\* jobs of the scan are.
C6_ScoreIgnoresPosition ==
    (mockResponse.scored /\ prevResponse.scored
     /\ mockResponse.resume.present /\ mockResponse.resume = prevResponse.resume) =>
        \A i \in DOMAIN mockResponse.matches : \A j \in DOMAIN prevResponse.matches :
            mockResponse.matches[i].title = prevResponse.matches[j].title
                => mockResponse.matches[i].match_score = prevResponse.matches[j].match_score

\* C6 amended: with a profile present, the same job scored with the same
\* profile at the same list position gets the same score whatever the other
\* jobs of the scan are.
C6_ScoreSameAtSamePosition ==
    (mockResponse.scored /\ prevResponse.scored
     /\ mockResponse.resume.present /\ mockResponse.resume = prevResponse.resume) =>
        \A i \in DOMAIN mockResponse.matches \cap DOMAIN prevResponse.matches :
            mockResponse.matches[i].title = prevResponse.matches[i].title
                => mockResponse.matches[i].match_score = prevResponse.matches[i].match_score

\* C6 witness: two scans with the same profile hold the same job at the same
\* position among different other jobs, in lists of different lengths.
C6_Witness ==
    /\ mockResponse.scored /\ prevResponse.scored
    /\ mockResponse.resume.present /\ mockResponse.resume = prevResponse.resume
    /\ Len(mockResponse.matches) # Len(prevResponse.matches)
    /\ \E i, k \in DOMAIN mockResponse.matches \cap DOMAIN prevResponse.matches :
            /\ mockResponse.matches[i].title = prevResponse.matches[i].title
            /\ mockResponse.matches[k].title # prevResponse.matches[k].title

\* The jobs of the page the scorer reads: the job elements, or the job
\* links when there are no elements.
SourceJobs(content) ==
    IF Len(content.jobElements) > 0 THEN content.jobElements ELSE content.jobLinks

\* The fallback response lists the jobs of the page in the order the page
\* holds them.
InDiscoveryOrder ==
    Len(SourceJobs(pageContent)) > 0 =>
        \A i \in DOMAIN mockResponse.matches :
            /\ i <= Len(SourceJobs(pageContent))
            /\ mockResponse.matches[i].id = i - 1
            /\ SourceJobs(pageContent)[i].title # ""
                => mockResponse.matches[i].title = SourceJobs(pageContent)[i].title

\* C25 as stated: the fallback response is in discovery order and its
\* scores decrease along that order (read as: never increase), with a
\* profile and without one.
C25_ScoresDecreaseInOrder ==
    mockResponse.scored =>
        /\ InDiscoveryOrder
        /\ \A i, j \in DOMAIN mockResponse.matches :
                i < j => mockResponse.matches[i].match_score
                            >= mockResponse.matches[j].match_score

\* C25 amended: the fallback response is in discovery order; without a
\* profile the scores strictly decrease along that order; with a profile
\* the scores never increase along that order among jobs that get the same
\* skill bonus.
C25_OrderKeptScoresDecreaseAtEqualBonus ==
    mockResponse.scored =>
        /\ InDiscoveryOrder
        /\ \A i, j \in DOMAIN mockResponse.matches :
                i < j =>
                    IF mockResponse.resume.present
                    THEN SkillBonus(UserSkills(mockResponse.resume),
                                    mockResponse.matches[i].title)
                         = SkillBonus(UserSkills(mockResponse.resume),
                                      mockResponse.matches[j].title)
                            => mockResponse.matches[i].match_score
                                >= mockResponse.matches[j].match_score
                    ELSE mockResponse.matches[i].match_score
                            > mockResponse.matches[j].match_score

\* C25 witness: with a profile, three jobs of the page are scored; the
\* second gets a skill bonus and scores above the first, the first and the
\* third get none and the third scores below the first.
C25_Witness ==
    /\ mockResponse.scored /\ mockResponse.resume.present
    /\ Len(pageContent.jobElements) = 3
    /\ Len(mockResponse.matches) = 3
    /\ mockResponse.matches[2].match_score > mockResponse.matches[1].match_score
    /\ mockResponse.matches[3].match_score < mockResponse.matches[1].match_score
    /\ SkillBonus(UserSkills(mockResponse.resume), mockResponse.matches[1].title) = 0
    /\ SkillBonus(UserSkills(mockResponse.resume), mockResponse.matches[3].title) = 0

C28_OneResultPerJob ==
    mockResponse.scored =>
        /\ Len(mockResponse.matches) = Len(SourceJobs(pageContent))
        /\ \A i \in DOMAIN mockResponse.matches : mockResponse.matches[i].id = i - 1

\* ------------------------------------------------------------------------
\* Properties of the rate limiter
\* ------------------------------------------------------------------------

CapOf(kind) == IF kind = "general" THEN limits.general ELSE limits.openai

\* The earlier checks of the same identity and the same operation.
PriorCalls(n) ==
    {j \in 1..(n - 1) : /\ callLog[j].id = callLog[n].id
                        /\ callLog[j].kind = callLog[n].kind}

\* C2: for one identity and one operation, starting from an empty window,
\* the first cap checks return true, the (cap+1)-th check made while the
\* first cap are still within the window returns false, and a check made
\* after the window has elapsed since every earlier one returns true again.
C2_CapWithinWindow ==
    \A n \in DOMAIN callLog :
        LET e == callLog[n]
            prior == PriorCalls(n)
        IN  /\ Cardinality(prior) < CapOf(e.kind) => e.allowed
            /\ (/\ Cardinality(prior) = CapOf(e.kind)
                /\ \A j \in prior : e.at - callLog[j].at <= window_hours)
                    => ~e.allowed
            /\ (\A j \in prior : e.at - callLog[j].at > window_hours) => e.allowed

\* C2 witness: one identity used up its cap, was refused within the window
\* and was allowed again once the window had elapsed.
C2_Witness ==
    \E n, m \in DOMAIN callLog :
        /\ n < m
        /\ n \in PriorCalls(m)
        /\ Cardinality(PriorCalls(n)) = CapOf(callLog[n].kind)
        /\ ~callLog[n].allowed
        /\ callLog[m].allowed
        /\ \A j \in PriorCalls(m) : callLog[m].at - callLog[j].at > window_hours

\* ------------------------------------------------------------------------
\* Properties of the content script's fetches
\* ------------------------------------------------------------------------

\* C3: a fetch of a url already fetched within the cache's maximum age is
\* served from the cache: the job's page is not requested over the network
\* and the call is not added to the identity's window.
C3_RepeatServedFromCache ==
    lastFetch.repeat => (~lastFetch.network /\ ~lastFetch.counted)

\* C4: at every moment of a scan the number of fetches started and not yet
\* settled is at most concurrentFetches, however many links the page has.
C4_InFlightBounded == Cardinality(inFlight) <= concurrentFetches

\* C4 witness: a fetch is in flight, and others were awaited before it,
\* during the scan of a page with more links than concurrentFetches.
C4_Witness ==
    /\ pc = "loop"
    /\ Len(jobLinks) > concurrentFetches
    /\ inFlight # {}
    /\ Len(jobs) >= 1

\* C7: every fetch that ends without the page's html (timeout, HTTP error,
\* network error, refused quota), direct or through the backend, yields a
\* job whose extractionMethod is fallback.
C7_FailedFetchIsFallback ==
    (lastFetch.settled /\ lastFetch.status \notin {"ok", "none"}) =>
        lastFetch.extractionMethod = "fallback"

\* C10: a fetch made when the identity has used up its 50 general requests
\* of the window returns quota_exceeded and requests nothing over the
\* network.
C10_UsedUpQuotaStopsFetch ==
    (lastFetch.quotaUsedUp /\ limits.general = max_requests) =>
        /\ ~lastFetch.network
        /\ lastFetch.settled => lastFetch.status = "quota_exceeded"

\* ------------------------------------------------------------------------
\* Properties of the backend's scoring
\* ------------------------------------------------------------------------

\* C1: when the Batch Matcher's call succeeds for N submitted jobs (N at
\* most the cap), its output holds exactly one MatchResult per submitted job
\* and no other, and the ranks of the results are exactly 1..N, none missing
\* and none twice.
C1_OnePerJobRanksPermutation ==
    (batch.called /\ batch.processing_method = "batch_llm") =>
        LET n == Len(batch.jobs) IN
        /\ n <= BatchCap
        /\ Len(batch.matches) = n
        /\ \A i \in 1..n :
              Cardinality({k \in 1..Len(batch.matches) :
                              batch.matches[k].job_id = batch.jobs[i].id}) = 1
        /\ \A k \in 1..Len(batch.matches) :
              \E i \in 1..n : batch.matches[k].job_id = batch.jobs[i].id
        /\ \A r \in 1..n :
              Cardinality({k \in 1..Len(batch.matches) : batch.matches[k].rank = r}) = 1

\* C1 witness: a successful batch call whose scores hold a tie and are not
\* in descending order as submitted, so that the sort moves jobs.
C1_Witness ==
    /\ batch.called /\ batch.processing_method = "batch_llm"
    /\ Len(batch.jobs) >= BatchThreshold
    /\ \E i, j \in 1..Len(batch.reply.results) :
          i < j /\ batch.reply.results[i].score = batch.reply.results[j].score
    /\ \E i, j \in 1..Len(batch.reply.results) :
          i < j /\ batch.reply.results[i].score < batch.reply.results[j].score
    /\ batch.matches[1].job_id # batch.jobs[1].id

\* C8: when the external scorer's response is malformed (fields missing,
\* wrong job count, unparsable) or the scorer is unavailable, no MatchResult
\* of the scan comes from the scorer's response: every job of the batch is
\* scored by the Fallback Scorer.
C8_FailedBatchAllFallback ==
    (batch.called /\ batch.reply.defect # "none") =>
        /\ Len(batch.matches) = Len(batch.jobs)
        /\ \A k \in 1..Len(batch.matches) :
              /\ batch.matches[k].source = "fallback"
              /\ batch.matches[k].job_id = batch.jobs[k].id

\* C8 witness: the scorer's response has a field missing for one job only,
\* the other entries being well formed, and the scan has its results.
C8_Witness ==
    /\ batch.called /\ batch.reply.defect = "missing_fields"
    /\ \E i, j \in 1..Len(batch.reply.results) :
          batch.reply.results[i].hasScore /\ ~batch.reply.results[j].hasScore
    /\ Len(batch.matches) = Len(batch.jobs)
    /\ batch.processing_method = "fallback"

\* ------------------------------------------------------------------------
\* Properties of the background worker
\* ------------------------------------------------------------------------

\* C9: when the scan's deadline expires the scan still returns results: the
\* jobs of the page are scored by the fallback scorer and the matches are
\* stored and sent to the caller.
C9_TimeoutStillReturnsMatches ==
    (wpc = "idle" /\ lastScanStatus.scan = wscan /\ lastScanStatus.status = "timeout") =>
        /\ lastScanResults.scan = wscan
        /\ lastScanResults.matches = generateEnhancedMockData(resumeData, pageContent)
        /\ lastMessage.scan = wscan
        /\ lastMessage.type = "SCAN_COMPLETE"
        /\ lastMessage.matches = lastScanResults.matches

\* The scan handled last is over and its results were stored and sent.
ScanReturned ==
    /\ wpc = "idle"
    /\ wscan > 0
    /\ lastScanResults.scan = wscan
    /\ lastMessage.scan = wscan

\* C11: a scan of a page with 3 jobs, with a profile and a threshold of 0.5,
\* returns exactly 3 matches, scored by the fallback scorer, with
\* processing_method "fallback".
C11_ThreeJobsFallback ==
    (/\ ScanReturned
     /\ lastMessage.type = "SCAN_COMPLETE"
     /\ JobsFound(pageContent) = 3
     /\ resumeData.present
     /\ RequestThreshold(matchThreshold) = 50) =>
        /\ Len(lastScanResults.matches) = 3
        /\ lastScanResults.processing_method = "fallback"

\* C13: every match of a scan's output has a score at or above the
\* caller's match threshold, whether the batch matcher or the fallback
\* scorer produced it.
C13_MatchesAtOrAboveThreshold ==
    (ScanReturned /\ lastScanResults.success) =>
        \A k \in 1..Len(lastScanResults.matches) :
            lastScanResults.matches[k].match_score >= RequestThreshold(matchThreshold)

\* C14: a scan of a page with no job link and no job element returns
\* success = false.
C14_EmptyPageFails ==
    (ScanReturned /\ pageContent = EmptyPage) => ~lastScanResults.success

\* C15: every scan of a page with at least one job returns matches,
\* whatever failed during the scan.
C15_NonEmptyPageHasMatches ==
    (wpc = "idle" /\ wscan > 0 /\ JobsFound(pageContent) > 0) =>
        /\ lastScanResults.scan = wscan
        /\ Len(lastScanResults.matches) > 0

\* The scan is over, the Batch Matcher was invoked for ten jobs and the
\* scorer's response carried valid scores for all of them.
TenJobsScored ==
    /\ batch.phase = "done"
    /\ batch.called /\ batch.granted /\ resumeData.present
    /\ Len(batch.jobs) = 10
    /\ batch.reply.defect = "none"

BatchDone == batch.phase = "done"

BatchScored == BatchDone /\ batch.processing_method = "batch_llm"

\* C18: the Batch Matcher's results are sorted by descending score, two
\* jobs of equal score are in the order they were submitted, and the i-th
\* result of that order has rank i.
C18_SortedStableRanked ==
    BatchScored =>
        /\ Len(batch.matches) = Len(batch.jobs)
        /\ \A k \in 1..Len(batch.matches) :
              /\ batch.matches[k].rank = k
              /\ batch.matches[k].score = ScoreOf(batch.reply, batch.matches[k].job_id)
        /\ \A k, l \in 1..Len(batch.matches) :
              k < l =>
                \/ batch.matches[k].score > batch.matches[l].score
                \/ /\ batch.matches[k].score = batch.matches[l].score
                   /\ batch.matches[k].job_id < batch.matches[l].job_id

\* C18 witness: the Batch Matcher scored a scan in which two jobs got the
\* same score and a job submitted later got a higher score than an earlier
\* one, so the sort moved it up.
C18_Witness ==
    /\ BatchScored
    /\ \E k \in 1..(Len(batch.matches) - 1) :
          /\ batch.matches[k].score = batch.matches[k + 1].score
          /\ batch.matches[k].job_id < batch.matches[k + 1].job_id
    /\ \E k \in 1..(Len(batch.matches) - 1) :
          /\ batch.matches[k].score > batch.matches[k + 1].score
          /\ batch.matches[k].job_id > batch.matches[k + 1].job_id

\* The statuses of a fetch that failed.
FailureStatuses ==
    {"http_error", "network_error", "timeout", "backend_failed", "quota_exceeded"}

\* C19: within one scan each job link is fetched at most once: the requests
\* issued are one for each link settled or in flight, never more than the
\* links, the loop is past a link once its fetch has settled, whatever the
\* outcome, and a failed fetch keeps its failure status and has no content.
C19_FetchedOnceNoRetry ==
    /\ netCalls <= Len(limitedLinks)
    /\ pc = "loop" =>
          /\ netCalls = (linkIdx - 1) + Cardinality(inFlight)
          /\ inFlight \subseteq {linkIdx}
          /\ Len(jobs) = linkIdx - 1
          /\ \A k \in 1..Len(jobs) : jobs[k].url = limitedLinks[k].url
    /\ (pc = "loop" /\ netCalls > 0
        /\ lastFetch.settled /\ lastFetch.status \in FailureStatuses) =>
          /\ ~lastFetch.content
          /\ linkIdx >= 2
          /\ limitedLinks[linkIdx - 1].url = lastFetch.url
          /\ linkIdx \notin inFlight => netCalls = linkIdx - 1

\* C19 witness: a fetch has ended in a timeout or an error status, and the
\* loop has started the fetch of the next link.
C19_Witness ==
    /\ pc = "loop"
    /\ linkIdx >= 2
    /\ jobs[linkIdx - 1].described = FALSE
    /\ inFlight = {linkIdx}
    /\ netCalls = linkIdx

\* C20: a cache get returns the entry of its url only while the entry's age
\* is within the maximum age of 24 hours: what it returns is the data of an
\* entry no older than that, and for an entry that is older it returns
\* nothing, until the url is put again.
C20_HitOnlyWithinMaxAge ==
    /\ lastGet.hit =>
          /\ lastGet.found
          /\ lastGet.cacheAge <= 24
          /\ lastGet.data > 0
    /\ (lastGet.found /\ lastGet.cacheAge > 24) =>
          (~lastGet.hit /\ lastGet.data = 0)

\* C20 witness: a get found an entry older than 24 hours and returned
\* nothing for it.
C20_Witness ==
    /\ lastGet.found
    /\ lastGet.cacheAge > 24
    /\ ~lastGet.hit

\* ------------------------------------------------------------------------
\* Properties of the job cache's puts
\* ------------------------------------------------------------------------

\* The caller's cacheJobData call writes the stored object in this step.
PutStores(c) ==
    /\ putReq[c].phase = "read"
    /\ putReq'[c].phase = "idle"
    /\ putStored'

\* The entries of a stored object.
EntriesOf(cache) == {cache[k] : k \in 1..Len(cache)}

\* The entries a put has to choose from: those it read, without the one of
\* its own url, and its own.
PutCandidates(c) ==
    {e \in EntriesOf(putReq[c].existing) : e.url # putReq[c].entry.url}
        \cup {putReq[c].entry}

\* C21: after a put the cache holds at most the capacity of entries; the
\* entries a put removes were cached no later than any entry it keeps, no
\* more are removed than the capacity asks for, and the entry just put is
\* kept.
C21_EvictsOldestKeepsNew ==
    [][\A c \in CacheCallers :
          PutStores(c) =>
            /\ Len(cachedJobs') <= CacheCap
            /\ EntriesOf(cachedJobs') \subseteq PutCandidates(c)
            /\ Cardinality(EntriesOf(cachedJobs')) =
                  Min(CacheCap, Cardinality(PutCandidates(c)))
            /\ \A gone \in PutCandidates(c) \ EntriesOf(cachedJobs') :
                  \A kept \in EntriesOf(cachedJobs') : gone.cachedAt <= kept.cachedAt
            /\ putReq[c].entry \in EntriesOf(cachedJobs')]_vars

\* C22: two scans' puts of different urls do not lose one another, in any
\* interleaving: a put that writes the stored object leaves in it every
\* entry of another url that was stored before the write, the capacity
\* allowing.
C22_ConcurrentPutsBothKept ==
    [][\A c \in CacheCallers :
          PutStores(c) =>
            \A e \in EntriesOf(cachedJobs) :
                (e.url # putReq[c].entry.url /\ Len(cachedJobs) < CacheCap) =>
                    e \in EntriesOf(cachedJobs')]_vars

\* ------------------------------------------------------------------------
\* Properties of the rate limiter's counters
\* ------------------------------------------------------------------------

\* The identity's counter of an operation at time t: its calls counted
\* within the last 24 hours.
CounterOf(stamps, t) == Cardinality({k \in 1..Len(stamps) : t - stamps[k] <= 24})

\* The window the limiter keeps for an identity and an operation.
WindowOf(req, oreq, id, kind) == IF kind = "general" THEN req[id] ELSE oreq[id]

\* C23: a check that returns true adds exactly one to the identity's
\* counter of that operation; a check that finds the counter at its cap
\* returns false and leaves the counter as it is; no other counter changes.
C23_AllowCountsOnce ==
    [][Len(callLog') = Len(callLog) + 1 =>
          LET e == callLog'[Len(callLog')]
              before == CounterOf(WindowOf(requests, openai_requests, e.id, e.kind), now)
              after == CounterOf(WindowOf(requests', openai_requests', e.id, e.kind), now)
          IN  /\ e.allowed => (before < CapOf(e.kind) /\ after = before + 1)
              /\ before >= CapOf(e.kind) => (~e.allowed /\ after = before)
              /\ ~e.allowed => after = before
              /\ \A id \in Identities, kind \in {"general", "openai"} :
                    (id # e.id \/ kind # e.kind) =>
                        WindowOf(requests', openai_requests', id, kind)
                            = WindowOf(requests, openai_requests, id, kind)]_vars

\* C23 witness: the latest check found the identity's counter at its cap,
\* was refused, and the counter is still at the cap.
C23_Witness ==
    /\ Len(callLog) > 1
    /\ ~callLog[Len(callLog)].allowed
    /\ callLog[Len(callLog) - 1].allowed
    /\ callLog[Len(callLog) - 1].id = callLog[Len(callLog)].id
    /\ callLog[Len(callLog) - 1].kind = callLog[Len(callLog)].kind
    /\ CounterOf(WindowOf(requests, openai_requests, callLog[Len(callLog)].id,
                          callLog[Len(callLog)].kind), now)
          = CapOf(callLog[Len(callLog)].kind)

\* ------------------------------------------------------------------------
\* Properties of link discovery
\* ------------------------------------------------------------------------

\* Where findJobLinks comes upon an anchor: the earliest selector that
\* matches it, then its place in the document.
DiscoveryPlace(k) ==
    (CHOOSE sel \in dom[k].sels : \A other \in dom[k].sels : sel <= other)
        * (Len(dom) + 1) + k

\* The anchors that make a job link of the url: they have a title.
LinkAnchors(url) ==
    {k \in 1..Len(dom) : dom[k].href = url /\ TitleOf(dom[k], discovered.script) # ""}

\* Where a job link of the url is come upon first.
FirstPlace(url) ==
    CHOOSE p \in {DiscoveryPlace(k) : k \in LinkAnchors(url)} :
        \A k \in LinkAnchors(url) : p <= DiscoveryPlace(k)

\* C24: the links findJobLinks returns hold no url twice and are in the
\* order in which their urls were first come upon.
C24_LinksUniqueInDiscoveryOrder ==
    discovered.script # "none" =>
        LET links == discovered.links IN
        /\ \A i, j \in 1..Len(links) : i # j => links[i].url # links[j].url
        /\ \A i, j \in 1..Len(links) :
              i < j => FirstPlace(links[i].url) <= FirstPlace(links[j].url)

\* ------------------------------------------------------------------------
\* Properties of the background worker's failure handling
\* ------------------------------------------------------------------------

C29_ScanEndsWithOutcome ==
    (wpc = "idle" /\ wscan > 0) =>
        \/ lastMessage.scan = wscan /\ lastMessage.type # "none"
        \/ lastScanResults.scan = wscan
        \/ lastScanStatus.scan = wscan

\* ------------------------------------------------------------------------
\* Properties of the description's extraction
\* ------------------------------------------------------------------------

\* The selectors whose element has text left after trimming.
WithText(found) ==
    {i \in 1..Len(found) : found[i].present /\ Trim(found[i].textContent) # <<>>}

\* C30 as stated: the description is the text of the first selector of the
\* extractor's list whose element has non-empty text; an element with empty
\* text is passed over for a later selector.
C30_FirstNonEmptyTextWins ==
    (description.done /\ WithText(extractDoc.found) # {}) =>
        LET withText == WithText(extractDoc.found)
            first == CHOOSE i \in withText : \A k \in withText : i <= k
        IN
        /\ ~description.placeholder
        /\ description.text
                = Substring(Trim(extractDoc.found[first].textContent),
                            DescriptionLength)

\* ------------------------------------------------------------------------
\* Properties of the order of fetching, extraction and scoring
\* ------------------------------------------------------------------------

\* C31: the extraction's result is handed over for scoring only when no
\* fetch of the scan is in flight; the fetches run one at a time, and the
\* job of a link is extracted only once its own fetch has settled.
C31_NoWorkWhileFetching ==
    /\ pc = "done" => inFlight = {}
    /\ Cardinality(inFlight) <= 1
    /\ \A i \in inFlight : Len(jobs) < i

\* C31 witness: an extraction has ended after three fetches or more, the
\* last of them abandoned on its timeout, with a job for every link.
C31_Witness ==
    /\ pc = "done"
    /\ netCalls >= 3
    /\ lastFetch.status = "timeout"
    /\ Len(jobs) = netCalls
    /\ inFlight = {}

VendorOrder == <<"workday", "greenhouse", "lever", "bamboohr", "amazon">>

\* The parser the host of a url calls for: that of the earliest vendor of
\* the order whose fragment occurs in the host, or the generic one.
ParserOfHost(url) ==
    IF \E k \in 1..Len(VendorOrder) : VendorOrder[k] \in url.host
    THEN VendorOrder[CHOOSE k \in 1..Len(VendorOrder) :
                        /\ VendorOrder[k] \in url.host
                        /\ \A l \in 1..(k - 1) : VendorOrder[l] \notin url.host]
    ELSE "generic"

\* C33 as stated: the parser is that of the first vendor, in the order
\* Workday, Greenhouse, Lever, BambooHR, Amazon, whose fragment occurs in
\* the host of the job url, and the generic one when there is none.
C33_ParserByFirstHostMatch ==
    description.done => description.parser = ParserOfHost(extractDoc.url)

\* ------------------------------------------------------------------------
\* Properties of repeated extractions
\* ------------------------------------------------------------------------

\* C34 as stated: the second extraction of a page returns the job links
\* the first returned.
C34_SecondExtractionSameLinks ==
    discovered.runs >= 2 => discovered.links = discovered.before

\* ------------------------------------------------------------------------
\* Properties of the request's threshold
\* ------------------------------------------------------------------------

\* A request has been built by handleScanPage.
RequestBuilt == lastRequest.match_threshold.den # 0

\* C40 as stated: for every stored percentage from 0 to 100 the request's
\* match_threshold is that percentage over 100, between 0 and 1, and the
\* default of 70 is sent only when no percentage is stored.
C40_ThresholdIsStoredOverHundred ==
    RequestBuilt =>
        /\ lastRequest.match_threshold.den = 100
        /\ lastRequest.match_threshold.num \in 0..100
        /\ matchThreshold # NotStored =>
                lastRequest.match_threshold.num = matchThreshold
        /\ matchThreshold = NotStored =>
                lastRequest.match_threshold.num = 70

\* ------------------------------------------------------------------------
\* Properties of the messages between the popup and the worker
\* ------------------------------------------------------------------------

\* C35 as stated: the worker has answered the latest SCAN_PAGE message,
\* on whatever path its handler took, the exception before the
\* acknowledgment included.
C35_EveryScanPageAnswered ==
    wscan > 0 => response = "processing"

\* C36 as stated: a scan button that is disabled is enabled again, on every
\* path of the scan.
C36_ButtonEnabledAgain ==
    (popup.button = "disabled") ~> (popup.button # "disabled")

\* The popup got the acknowledgment of its scan, the scan has ended with
\* the backend's results, which the worker stored as pendingResults, and
\* its SCAN_COMPLETE did not reach the popup.
CompletionMissed ==
    /\ popup.phase = "waiting"
    /\ handlers[popup.url] = "done"
    /\ notified = [type |-> "SCAN_COMPLETE", url |-> popup.url, delivered |-> FALSE]
    /\ store.lastScanResults.url = popup.url
    /\ store.lastScanResults.processing_method = "backend"
    /\ store.pendingResults.url = popup.url

\* C37 as stated: a popup that missed the SCAN_COMPLETE of its scan shows
\* the scan's results once its timers have run.
C37_MissedResultsShown ==
    (CompletionMissed /\ ~popup.quick) => popup.shown = popup.url

\* C38 as stated: while the popup's own scan is in progress, the results
\* it shows, if any, are those of the url it requested.
C38_OnlyRequestedUrlShown ==
    (/\ popup.phase = "waiting"
     /\ handlers[popup.url] = "fetching"
     /\ popup.shown # 0) => popup.shown = popup.url

\* C39 as stated: every HEALTH_CHECK whose request has ended got exactly
\* one response, with success true after an ok answer and success false
\* otherwise.
C39_HealthCheckAnsweredOnce ==
    \A i \in 1..Len(healthChecks) :
        healthChecks[i].answer # "pending" =>
            /\ healthChecks[i].responses = 1
            /\ healthChecks[i].success =
                    IF healthChecks[i].answer = "200" THEN "true" ELSE "false"

====
